---- MODULE Spec2Model ----
(***************************************************************************)
(* AirTouch 3 client (custom_components/airtouch3/client.py).              *)
(*                                                                         *)
(* The asyncio event loop runs one coroutine at a time: a task runs from   *)
(* one await that suspends to the next.  `cur` is the task that is running *)
(* (0 when the loop is between tasks); the steps of a running task are not *)
(* interleaved with other tasks.  The suspension points are the awaits of  *)
(* open_connection, Lock.acquire (when the lock is taken), drain, read and *)
(* wait_closed.                                                            *)
(*                                                                         *)
(* The byte stream is handled in units of half a state frame.              *)
(***************************************************************************)
EXTENDS Integers, Sequences, FiniteSets, TLC

\* ------------------------------------------------------------------ bounds
MaxCalls == 2        \* public operations started during a run
MaxConn == 1         \* transports opened during a run
MaxFrames == 2       \* state frames the device sends during a run
MaxChunk == 2        \* units one read(1024) can return

\* --------------------------------------------------------------- constants
STATE_MSG_SIZE == 2      \* const.STATE_MSG_SIZE (492 bytes), in units
INTERNET_MSG_SIZE == 3   \* const.INTERNET_MSG_SIZE (larger than a state frame), in units

\* const.MIN_TEMP, const.MAX_TEMP: the setpoints the device supports
MIN_TEMP == 16
MAX_TEMP == 32

\* the iteration caps of ac_set_temperature and of the zone setters
AC_ITERATIONS == 30
ZONE_ITERATIONS == 25

\* the damper value at 100 %, in steps of 5 %
DAMPER_MAX == 20

\* the concurrent callers of the client
Tasks == {1, 2}
Conns == 1 .. MaxConn + 1

\* Python's None for Optional[SystemState]
None == [raw_data |-> << >>, zone_count |-> 0]

\* the zone-count bytes the device reports: a frame without zones, a frame
\* with one zone, a frame whose byte 352 exceeds the 16 zone slots
ZoneCounts == {0, 1, 17}

Ops == {"connect", "disconnect", "get_state", "refresh_state", "sync_time", "zone_toggle"}

\* the convergence setters
Setters == {"ac_set_temperature", "zone_set_damper", "zone_set_value"}

VARIABLES
    reader,          \* self.reader: 0 is None, else the transport it reads
    writer,          \* self.writer: 0 is None, else the transport it writes
    latest_state,    \* self._latest_state
    buffer,          \* self._buffer.buffer
    lock_holder,     \* self._lock: the task inside `async with`, 0 if unlocked
    lock_waiters,    \* self._lock: tasks suspended in acquire, in order
    conn,            \* per transport: "none" (not opened yet), "open", "closed"
                     \* (by writer.close()), "broken" (by a socket error)
    inq,             \* per transport: units the device sent, not yet read
    nconn,           \* transports opened so far
    nframes,         \* state frames the device sent so far
    limits,          \* what a run may hold: the transports opened (conns), the
                     \* state frames of a device "any" (frames), the units one
                     \* read(1024) returns (chunk)
    cur,             \* the running task, 0 when none runs
    op,              \* per task: the public operation it is in, "idle" if none
    pc,              \* per task: its position in the code
    stack,           \* per task: the positions its callers resume at
    rv,              \* per task: the Optional[SystemState] last returned
    rb,              \* per task: the bool last returned
    calls,           \* operations started so far
    result,          \* per task: "raised" once an operation of it has raised
    hist,            \* per task: what the current operation has done so far
    device_kind,     \* how the device behaves: "any" answers a command or not;
                     \* "steps" and "stuck" answer every command, "stuck"
                     \* ignoring the nudges
    dev_zones,       \* the device: its number of zones (kinds "steps", "stuck");
                     \* the largest zone count that a device "any" reports
    ac_setpoint,     \* the device: setpoint of AC 0
    zone_damper,     \* the device: damper value of zone 0, in steps of 5 %
    zone_setpoint,   \* the device: setpoint of zone 0, 0 if no sensor feeds it
    locals,          \* per task: arguments and local variables of a setter
    decoded_after,   \* per task in a setter: the snapshots decoded by any task
                     \* since its last nudge was written
    fr_stream,       \* framing: the bytes not yet fed to add_data
    fr_in,           \* framing: buffer + data at the last add_data call
    fr_msgs,         \* framing: what the last add_data call returned
    fr_out,          \* framing: all messages returned so far, in order
    applied,         \* the pure function applied, with its arguments
    returned,        \* what that application returned
    entities         \* the entities of zone 0 and what they act on: the zone in
                     \* coordinator.data (data), the zone of the device (zone),
                     \* the setpoint sensor's optimistic entry (optimistic, none
                     \* or one), and what has been done so far

vars == <<reader, writer, latest_state, buffer, lock_holder, lock_waiters,
          conn, inq, nconn, nframes, limits, cur, op, pc, stack, rv, rb, calls,
          result, hist, device_kind, dev_zones, ac_setpoint, zone_damper, zone_setpoint,
          locals, decoded_after, fr_stream, fr_in, fr_msgs, fr_out,
          applied, returned, entities>>

client == <<reader, writer, latest_state, buffer>>
lock == <<lock_holder, lock_waiters>>
device == <<conn, inq, nconn, nframes>>
devstate == <<device_kind, dev_zones, limits, ac_setpoint, zone_damper, zone_setpoint>>
framing == <<fr_stream, fr_in, fr_msgs, fr_out>>
codec == <<applied, returned>>
others == <<devstate, framing, codec, entities, locals, decoded_after>>

\* ----------------------------------------------------------------- frames
\* One unit of the stream.  f, k: it is the k-th unit of the device's f-th
\* frame.  zone_count: what byte 352 of a frame that has this unit as its
\* second unit reads.  zero_span: bytes 100..107 of a buffer starting with
\* this unit are all zero.  ac_setpoint, zone_damper, zone_setpoint: what the
\* setpoint byte of AC 0 and the damper and feedback bytes of zone 0 of such
\* a frame read (0 where the unit is not the second unit of a frame).
Unit(f, k, zc) == [f |-> f, k |-> k, zone_count |-> IF k = 2 THEN zc ELSE 0,
                   zero_span |-> FALSE,
                   ac_setpoint |-> 0, zone_damper |-> 0, zone_setpoint |-> 0]

\* A 492-byte state frame as the device sends it: its second unit also holds
\* the setpoint byte of AC 0 and the damper and feedback bytes of zone 0.
StateFrame(f, zc, ac, zd, zs) ==
    [k \in 1 .. STATE_MSG_SIZE |->
        IF k = 2
        THEN [Unit(f, k, zc) EXCEPT !.ac_setpoint = ac, !.zone_damper = zd,
                                    !.zone_setpoint = zs]
        ELSE Unit(f, k, zc)]

\* variant of add_data_loop: the state-frame test comes first
RECURSIVE add_data_loop_state_first(_, _)
add_data_loop_state_first(b, messages) ==
    IF Len(b) >= STATE_MSG_SIZE
    THEN add_data_loop_state_first(SubSeq(b, STATE_MSG_SIZE + 1, Len(b)),
                                   Append(messages, SubSeq(b, 1, STATE_MSG_SIZE)))
    ELSE IF Len(b) >= INTERNET_MSG_SIZE /\ b[1].zero_span
    THEN add_data_loop_state_first(SubSeq(b, INTERNET_MSG_SIZE + 1, Len(b)), messages)
    ELSE [buffer |-> b, messages |-> messages]

\* the loop of MessageBuffer.add_data on buffer b, `messages` emitted so far
RECURSIVE add_data_loop(_, _)
add_data_loop(b, messages) ==
    IF Len(b) >= INTERNET_MSG_SIZE /\ b[1].zero_span
    THEN add_data_loop(SubSeq(b, INTERNET_MSG_SIZE + 1, Len(b)), messages)
    ELSE IF Len(b) >= STATE_MSG_SIZE
    THEN add_data_loop(SubSeq(b, STATE_MSG_SIZE + 1, Len(b)),
                       Append(messages, SubSeq(b, 1, STATE_MSG_SIZE)))
    ELSE [buffer |-> b, messages |-> messages]

\* MessageBuffer.add_data: the buffer left and the messages returned
add_data(b, data) == add_data_loop(b \o data, << >>)

\* variant of parse_state_raises: ZoneState accepts the keywords it is given
parse_state_accepts_zones(msg) == FALSE

\* _parse_state raises: ZoneState(...) is built with the keywords data_index,
\* temperature_control and has_sensor, which models.ZoneState does not have,
\* so the first zone of a frame raises TypeError.
parse_state_raises(msg) == msg[2].zone_count >= 1

\* _parse_state: the SystemState of a frame that decodes
parse_state(msg) == [raw_data |-> msg, zone_count |-> msg[2].zone_count]

\* state.ac_units: `for ac_num in range(2)` appends one AcState each
ac_units(state) == [ac_num \in 1 .. 2 |-> [ac_number |-> ac_num - 1]]

\* state.ac_units[0].setpoint
ac_units_setpoint(state) == state.raw_data[2].ac_setpoint

\* state.zones: zone 0 is its first entry; setpoint 0 is None
zones(state) ==
    [z \in 1 .. state.zone_count |->
        [damper_percent |-> IF state.raw_data[2].zone_damper * 5 < 100
                            THEN state.raw_data[2].zone_damper * 5 ELSE 100,
         setpoint |-> state.raw_data[2].zone_setpoint]]

\* AirTouch3Client.connected
connected == writer # 0 /\ conn[writer] = "open"

\* ------------------------------------------------------------- bookkeeping
\* What an operation has done so far (history, not program state):
\*   connects   connect() calls it made (those of its own _send_command, once
\*              that has begun)
\*   nopen      open_connection calls its current (outermost) connect() made
\*   opened     the transport its last successful open_connection returned
\*   connect    how its connect() ended: "ok", "failed", or "" if none did
\*   writes     the frames it wrote: the command, the transport written,
\*              whether it was connect's init handshake, and how many state
\*              frames the device had sent before
\*   read       it has read the socket
\*   cause      why its last _send_command or _wait_for_state returned None or a
\*              state ("" while it runs, "timeout" after a read timed out)
\*   decoded    the snapshot its last _wait_for_state decoded, if any
\*   disc0      the session was not connected when its own _send_command (or,
\*              for get_state, the operation) began
\*   latest0    the cache at that moment
NoHist == [connects |-> 0, nopen |-> 0, opened |-> 0, connect |-> "", writes |-> << >>,
           read |-> FALSE,
           cause |-> "", decoded |-> None,
           disc0 |-> FALSE, latest0 |-> None]

\* Arguments and local variables of a setter that is not running.  target,
\* is_temperature: the arguments (ac_num and zone_index are 0); i: iterations
\* of the for loop begun; state, current: the locals of these names; command:
\* the nudge chosen last.  History: start is the device's value when the
\* setter was called, first the value in the first snapshot the setter
\* compared (-1 before that).
NoLocals == [target |-> 0, is_temperature |-> FALSE,
             i |-> 0, state |-> None, current |-> 0, command |-> "",
             start |-> 0, first |-> -1]

\* no byte stream is being framed
NoFraming == fr_stream = << >> /\ fr_in = << >> /\ fr_msgs = << >> /\ fr_out = << >>

\* no pure function has been applied
NoCall == [fn |-> "", args |-> << >>]

\* the client as constructed
Constructed ==
    /\ applied = NoCall /\ returned = << >>
    /\ entities = [setup |-> FALSE,
                   data |-> [is_on |-> FALSE, setpoint |-> 0],
                   zone |-> [is_on |-> FALSE, setpoint |-> 0],
                   optimistic |-> << >>, pressed |-> "",
                   start_on |-> FALSE, turn_ons |-> 0, turn_offs |-> 0,
                   toggles |-> 0, last |-> ""]
    /\ reader = 0 /\ writer = 0 /\ latest_state = None /\ buffer = << >>
    /\ lock_holder = 0 /\ lock_waiters = << >>
    /\ conn = [c \in Conns |-> "none"] /\ inq = [c \in Conns |-> << >>]
    /\ nconn = 0 /\ nframes = 0
    /\ cur = 0
    /\ op = [t \in Tasks |-> "idle"]
    /\ pc = [t \in Tasks |-> "idle"]
    /\ stack = [t \in Tasks |-> << >>]
    /\ rv = [t \in Tasks |-> None]
    /\ rb = [t \in Tasks |-> FALSE]
    /\ calls = 0
    /\ result = [t \in Tasks |-> "returned"]
    /\ hist = [t \in Tasks |-> NoHist]
    /\ locals = [t \in Tasks |-> NoLocals]
    /\ decoded_after = [t \in Tasks |-> {}]

\* a device that answers a command or not, with any zone count of ZoneCounts
Init ==
    /\ Constructed
    /\ limits = [conns |-> MaxConn, frames |-> MaxFrames, chunk |-> MaxChunk]
    /\ device_kind = "any" /\ dev_zones = 17
    /\ ac_setpoint = MIN_TEMP /\ zone_damper = 0 /\ zone_setpoint = 0
    /\ NoFraming

\* the task keeps running at position l
Goto(t, l) == pc' = [pc EXCEPT ![t] = l] /\ cur' = t /\ UNCHANGED stack

\* the task suspends at position l
Suspend(t, l) == pc' = [pc EXCEPT ![t] = l] /\ cur' = 0 /\ UNCHANGED stack

\* the task calls the coroutine at `entry` and resumes at `cont` on return
CallProc(t, entry, cont) ==
    /\ pc' = [pc EXCEPT ![t] = entry]
    /\ stack' = [stack EXCEPT ![t] = <<cont>> \o @]
    /\ cur' = t

\* the coroutine returns to its caller
Return(t) ==
    /\ pc' = [pc EXCEPT ![t] = Head(stack[t])]
    /\ stack' = [stack EXCEPT ![t] = Tail(@)]
    /\ cur' = t

\* the coroutine raises: nothing on the way up catches, the operation ends
Raise(t) ==
    /\ pc' = [pc EXCEPT ![t] = "idle"]
    /\ stack' = [stack EXCEPT ![t] = << >>]
    /\ op' = [op EXCEPT ![t] = "idle"]
    /\ rv' = [rv EXCEPT ![t] = None]
    /\ rb' = [rb EXCEPT ![t] = FALSE]
    /\ hist' = [hist EXCEPT ![t] = NoHist]
    /\ result' = [result EXCEPT ![t] = "raised"]
    /\ cur' = 0

Running(t, l) == cur = t /\ pc[t] = l
Resumes(t, l) == cur = 0 /\ pc[t] = l


\* -------------------------------------------------- the frame accumulator
\* An internet-mode frame: bytes 100..107 of it are zero; z2 and z3 say
\* whether the same span counted from its second and third unit is zero too.
InternetFrame(z2, z3) ==
    [k \in 1 .. INTERNET_MSG_SIZE |->
        [Unit(0, k, 0) EXCEPT
            !.zero_span = IF k = 1 THEN TRUE ELSE IF k = 2 THEN z2 ELSE z3]]

\* the state frame that follows the internet-mode frame in the stream; z says
\* whether its own bytes 100..107 are zero
TrailingFrame(zc, z) ==
    [StateFrame(1, zc, MIN_TEMP, 0, 0) EXCEPT ![1].zero_span = z]

\* A stream of one internet-mode frame followed by one state frame is about to
\* be fed to a new MessageBuffer.
InitFraming ==
    /\ Constructed
    /\ limits = [conns |-> MaxConn, frames |-> MaxFrames, chunk |-> MaxChunk]
    /\ device_kind = "any" /\ dev_zones = 0
    /\ ac_setpoint = MIN_TEMP /\ zone_damper = 0 /\ zone_setpoint = 0
    /\ \E z2 \in BOOLEAN, z3 \in BOOLEAN, z \in BOOLEAN, zc \in ZoneCounts :
           fr_stream = InternetFrame(z2, z3) \o TrailingFrame(zc, z)
    /\ fr_in = << >> /\ fr_msgs = << >> /\ fr_out = << >>

\* MessageBuffer.add_data is called with the next n units of the stream
feed(n) ==
    /\ n \in 1 .. Len(fr_stream)
    /\ LET data == SubSeq(fr_stream, 1, n)
           r == add_data(buffer, data)
       IN  /\ buffer' = r.buffer
           /\ fr_in' = buffer \o data
           /\ fr_msgs' = r.messages
           /\ fr_out' = fr_out \o r.messages
           /\ fr_stream' = SubSeq(fr_stream, n + 1, Len(fr_stream))
    /\ UNCHANGED <<reader, writer, latest_state, lock, device, cur, op, pc, stack,
                   rv, rb, calls, result, hist, devstate, locals, decoded_after,
                   codec, entities>>

NextFraming == \E n \in 1 .. INTERNET_MSG_SIZE + STATE_MSG_SIZE : feed(n)

SpecFraming == InitFraming /\ [][NextFraming]_vars

\* ------------------------------------------------------ public entry points
\* A caller (the coordinator's poll, an entity's service call) starts one of
\* the client's public operations.
Call(t, o) ==
    /\ cur = 0 /\ pc[t] = "idle" /\ calls < MaxCalls
    /\ op' = [op EXCEPT ![t] = o]
    /\ pc' = [pc EXCEPT ![t] = o]
    /\ stack' = [stack EXCEPT ![t] = <<"done">>]
    /\ calls' = calls + 1
    /\ cur' = t
    /\ UNCHANGED <<client, lock, device, rv, rb, result, hist>>
    /\ UNCHANGED others

\* the operation returns to the caller
Done(t) ==
    /\ Running(t, "done")
    /\ pc' = [pc EXCEPT ![t] = "idle"]
    /\ op' = [op EXCEPT ![t] = "idle"]
    /\ rv' = [rv EXCEPT ![t] = None]
    /\ rb' = [rb EXCEPT ![t] = FALSE]
    /\ hist' = [hist EXCEPT ![t] = NoHist]
    /\ locals' = [locals EXCEPT ![t] = NoLocals]
    /\ decoded_after' = [decoded_after EXCEPT ![t] = {}]
    /\ cur' = 0
    /\ UNCHANGED <<client, lock, device, stack, calls, result, devstate, framing, codec, entities>>

\* ------------------------------------------------------------------ connect
\* task t is inside a connect() that has called _send_command
InConnect(t) == \E i \in 1 .. Len(stack[t]) : stack[t][i] = "connect_after_init"

\* connect, up to `await asyncio.wait_for(asyncio.open_connection(...))`
connect(t) ==
    /\ Running(t, "connect")
    /\ hist' = [hist EXCEPT ![t].nopen = IF InConnect(t) THEN @ ELSE 0,
                            ![t].connects = @ + 1]
    /\ Suspend(t, "connect_open")
    /\ UNCHANGED <<client, lock, device, op, rv, rb, calls, result>>
    /\ UNCHANGED others


\* variant of connect_open_ok: the session is declared usable as soon as the
\* transport is open, without the init handshake
connect_open_ok_no_handshake(t) ==
    /\ Resumes(t, "connect_open")
    /\ nconn < limits.conns
    /\ nconn' = nconn + 1
    /\ conn' = [conn EXCEPT ![nconn + 1] = "open"]
    /\ reader' = nconn + 1 /\ writer' = nconn + 1
    /\ hist' = [hist EXCEPT ![t].nopen = @ + 1, ![t].opened = nconn + 1,
                            ![t].connect = "ok"]
    /\ rb' = [rb EXCEPT ![t] = TRUE]
    /\ Return(t)
    /\ UNCHANGED <<latest_state, buffer, lock, inq, nframes, op, rv, calls, result>>
    /\ UNCHANGED others

\* open_connection returns: reader and writer are set, the init command is
\* built and _send_command is called
connect_open_ok(t) ==
    /\ Resumes(t, "connect_open")
    /\ nconn < limits.conns
    /\ nconn' = nconn + 1
    /\ conn' = [conn EXCEPT ![nconn + 1] = "open"]
    /\ reader' = nconn + 1 /\ writer' = nconn + 1
    /\ hist' = [hist EXCEPT ![t].nopen = @ + 1, ![t].opened = nconn + 1]
    /\ CallProc(t, "send_command", "connect_after_init")
    /\ UNCHANGED <<latest_state, buffer, lock, inq, nframes, op, rv, rb, calls, result>>
    /\ UNCHANGED others

\* open_connection times out or raises OSError
connect_open_fail(t) ==
    /\ Resumes(t, "connect_open")
    /\ reader' = 0 /\ writer' = 0
    /\ rb' = [rb EXCEPT ![t] = FALSE]
    /\ hist' = [hist EXCEPT ![t].nopen = @ + 1, ![t].connect = "failed"]
    /\ Return(t)
    /\ UNCHANGED <<latest_state, buffer, lock, device, op, rv, calls, result>>
    /\ UNCHANGED others


\* variant of connect_after_init: a failed handshake returns False without
\* `await self.disconnect()`
connect_after_init_no_disconnect(t) ==
    /\ Running(t, "connect_after_init")
    /\ IF rv[t] = None
       THEN /\ rb' = [rb EXCEPT ![t] = FALSE]
            /\ hist' = [hist EXCEPT ![t].connect = "failed"]
            /\ UNCHANGED latest_state
       ELSE /\ latest_state' = rv[t]
            /\ rb' = [rb EXCEPT ![t] = TRUE]
            /\ hist' = [hist EXCEPT ![t].connect = "ok"]
    /\ Return(t)
    /\ UNCHANGED <<reader, writer, buffer, lock, device, op, rv, calls, result>>
    /\ UNCHANGED others

\* connect, after `response = await self._send_command(init_msg)`
connect_after_init(t) ==
    /\ Running(t, "connect_after_init")
    /\ IF rv[t] = None
       THEN /\ CallProc(t, "disconnect", "connect_failed")
            /\ UNCHANGED <<latest_state, rb, hist>>
       ELSE /\ latest_state' = rv[t]
            /\ rb' = [rb EXCEPT ![t] = TRUE]
            /\ hist' = [hist EXCEPT ![t].connect = "ok"]
            /\ Return(t)
    /\ UNCHANGED <<reader, writer, buffer, lock, device, op, rv, calls, result>>
    /\ UNCHANGED others

\* connect, after `await self.disconnect()`: return False
connect_failed(t) ==
    /\ Running(t, "connect_failed")
    /\ rb' = [rb EXCEPT ![t] = FALSE]
    /\ hist' = [hist EXCEPT ![t].connect = "failed"]
    /\ Return(t)
    /\ UNCHANGED <<client, lock, device, op, rv, calls, result>>
    /\ UNCHANGED others

\* --------------------------------------------------------------- disconnect
\* disconnect, up to `await self.writer.wait_closed()`
disconnect(t) ==
    /\ Running(t, "disconnect")
    /\ IF writer # 0
       THEN /\ conn' = [conn EXCEPT ![writer] = IF @ = "open" THEN "closed" ELSE @]
            /\ Suspend(t, "disconnect_wait_closed")
            /\ UNCHANGED <<reader, writer>>
       ELSE /\ reader' = 0 /\ writer' = 0
            /\ Return(t)
            /\ UNCHANGED conn
    /\ UNCHANGED <<latest_state, buffer, lock, inq, nconn, nframes, op, rv, rb,
                   calls, result, hist>>
    /\ UNCHANGED others

\* wait_closed returns (or raises, which is swallowed)
disconnect_wait_closed(t) ==
    /\ Resumes(t, "disconnect_wait_closed")
    /\ reader' = 0 /\ writer' = 0
    /\ Return(t)
    /\ UNCHANGED <<latest_state, buffer, lock, device, op, rv, rb, calls, result, hist>>
    /\ UNCHANGED others

\* ------------------------------------------------------------ _send_command
\* the send that connect makes for its init handshake
IsHandshake(t) == Head(stack[t]) = "connect_after_init"

\* the frame a _send_command of task t writes
Command(t) ==
    IF IsHandshake(t) \/ op[t] = "refresh_state" THEN "init"
    ELSE IF op[t] \in Setters THEN locals[t].command
    ELSE "zone"

\* x moved one step up or down, within lo .. hi
Nudged(x, up, lo, hi) ==
    IF up THEN (IF x < hi THEN x + 1 ELSE x) ELSE (IF x > lo THEN x - 1 ELSE x)

\* The device receives the frame cmd on transport c.  A nudge moves the value
\* it addresses by one step, unless the device is "stuck".  The device
\* answers with one state frame; a device of kind "any" may also not answer,
\* and bytes written to a transport that is closed go nowhere.
DeviceReceives(c, cmd) ==
    LET moves == device_kind # "stuck"
        up == cmd \in {"ac_temp_up", "zone_damper_up", "zone_value_up"}
        ac == IF moves /\ cmd \in {"ac_temp_up", "ac_temp_down"}
              THEN Nudged(ac_setpoint, up, MIN_TEMP, MAX_TEMP) ELSE ac_setpoint
        by_setpoint == cmd \in {"zone_value_up", "zone_value_down"} /\ zone_setpoint > 0
        by_damper == \/ cmd \in {"zone_damper_up", "zone_damper_down"}
                     \/ cmd \in {"zone_value_up", "zone_value_down"} /\ zone_setpoint = 0
        zd == IF moves /\ by_damper THEN Nudged(zone_damper, up, 0, DAMPER_MAX)
              ELSE zone_damper
        zs == IF moves /\ by_setpoint THEN Nudged(zone_setpoint, up, 1, MAX_TEMP)
              ELSE zone_setpoint
    IN  \/ /\ device_kind = "any" \/ conn[c] # "open"
           /\ UNCHANGED <<inq, nframes, devstate>>
        \/ /\ conn[c] = "open"
           /\ device_kind = "any" => nframes < limits.frames
           /\ \E zc \in (IF device_kind = "any"
                         THEN {z \in ZoneCounts : z <= dev_zones} ELSE {dev_zones}) :
                  inq' = [inq EXCEPT ![c] = @ \o
                              StateFrame(IF device_kind = "any" THEN nframes + 1 ELSE 0,
                                         zc, ac, zd, zs)]
           /\ nframes' = IF device_kind = "any" THEN nframes + 1 ELSE nframes
           /\ ac_setpoint' = ac /\ zone_damper' = zd /\ zone_setpoint' = zs
           /\ UNCHANGED <<device_kind, dev_zones, limits>>

\* `async with self._lock` when the lock is free: no suspension
LockFree == lock_holder = 0 /\ lock_waiters = << >>

\* leaving `async with self._lock`
Release == lock_holder' = 0 /\ UNCHANGED lock_waiters

\* _send_command, its connected check
send_command(t) ==
    /\ Running(t, "send_command")
    /\ hist' = IF IsHandshake(t) THEN [hist EXCEPT ![t].cause = ""]
               ELSE [hist EXCEPT ![t].disc0 = ~connected,
                                 ![t].latest0 = latest_state,
                                 ![t].connects = 0, ![t].cause = ""]
    /\ IF connected
       THEN Goto(t, "send_command_lock")
       ELSE CallProc(t, "connect", "send_command_connected")
    /\ UNCHANGED <<client, lock, device, op, rv, rb, calls, result>>
    /\ UNCHANGED others


\* variant of send_command_connected: a failed connect is tried once more
send_command_connected_retry(t) ==
    /\ Running(t, "send_command_connected")
    /\ IF rb[t]
       THEN Goto(t, "send_command_lock") /\ UNCHANGED <<rv, hist>>
       ELSE IF hist[t].connects < 2
       THEN CallProc(t, "connect", "send_command_connected") /\ UNCHANGED <<rv, hist>>
       ELSE /\ rv' = [rv EXCEPT ![t] = None]
            /\ hist' = [hist EXCEPT ![t].cause = "connect_failed"]
            /\ Return(t)
    /\ UNCHANGED <<client, lock, device, op, rb, calls, result>>
    /\ UNCHANGED others

\* _send_command, after `await self.connect()`
send_command_connected(t) ==
    /\ Running(t, "send_command_connected")
    /\ IF rb[t]
       THEN Goto(t, "send_command_lock") /\ UNCHANGED <<rv, hist>>
       ELSE /\ rv' = [rv EXCEPT ![t] = None]
            /\ hist' = [hist EXCEPT ![t].cause = "connect_failed"]
            /\ Return(t)
    /\ UNCHANGED <<client, lock, device, op, rb, calls, result>>
    /\ UNCHANGED others

\* _send_command, entering `async with self._lock`
send_command_lock(t) ==
    /\ Running(t, "send_command_lock")
    /\ IF LockFree
       THEN /\ lock_holder' = t /\ UNCHANGED lock_waiters
            /\ Goto(t, "send_command_locked")
       ELSE /\ lock_waiters' = Append(lock_waiters, t) /\ UNCHANGED lock_holder
            /\ Suspend(t, "send_command_acquire")
    /\ UNCHANGED <<client, device, op, rv, rb, calls, result, hist>>
    /\ UNCHANGED others

\* the lock is released and this task is the first waiter
send_command_acquire(t) ==
    /\ Resumes(t, "send_command_acquire")
    /\ lock_holder = 0 /\ lock_waiters # << >> /\ Head(lock_waiters) = t
    /\ lock_holder' = t /\ lock_waiters' = Tail(lock_waiters)
    /\ Goto(t, "send_command_locked")
    /\ UNCHANGED <<client, device, op, rv, rb, calls, result, hist>>
    /\ UNCHANGED others

\* _send_command inside the lock: the assert, then write and `await drain()`
send_command_locked(t) ==
    /\ Running(t, "send_command_locked")
    /\ IF writer # 0 /\ reader # 0
       THEN /\ DeviceReceives(writer, Command(t))
            /\ hist' = [hist EXCEPT ![t].writes =
                            Append(@, [cmd |-> Command(t), conn |-> writer,
                                       hs |-> IsHandshake(t), sent |-> nframes]),
                                    ![t].decoded = None, ![t].cause = ""]
            /\ decoded_after' = IF op[t] \in Setters /\ ~IsHandshake(t)
                                THEN [decoded_after EXCEPT ![t] = {}]
                                ELSE decoded_after
            /\ Suspend(t, "send_command_drain")
            /\ UNCHANGED <<lock, op, rv, rb, result, locals>>
       ELSE /\ Release
            /\ Raise(t)
            /\ locals' = [locals EXCEPT ![t] = NoLocals]
            /\ decoded_after' = [decoded_after EXCEPT ![t] = {}]
            /\ UNCHANGED <<inq, nframes, devstate>>
    /\ UNCHANGED <<client, conn, nconn, calls, framing, codec, entities>>

\* the transport task t wrote last
Written(t) == hist[t].writes[Len(hist[t].writes)].conn

\* a socket error on transport c: the transport closes itself, and every
\* later read or drain of it raises
Break(c) == conn' = [conn EXCEPT ![c] = IF @ = "open" THEN "broken" ELSE @]

\* drain returns: `state = await self._wait_for_state()`
send_command_drained(t) ==
    /\ Resumes(t, "send_command_drain")
    /\ conn[Written(t)] = "open"
    /\ CallProc(t, "wait_for_state", "send_command_state")
    /\ UNCHANGED <<client, lock, device, op, rv, rb, calls, result, hist>>
    /\ UNCHANGED others

\* write or drain raises: `await self.disconnect()`
send_command_drain_failed(t) ==
    /\ Resumes(t, "send_command_drain")
    /\ Break(Written(t))
    /\ hist' = [hist EXCEPT ![t].cause = "write_failed"]
    /\ CallProc(t, "disconnect", "send_command_write_failed")
    /\ UNCHANGED <<client, lock, inq, nconn, nframes, op, rv, rb, calls, result>>
    /\ UNCHANGED others

\* variant of send_command_write_failed: the write failure returns None
\* without leaving the lock
send_command_write_failed_keeps_lock(t) ==
    /\ Running(t, "send_command_write_failed")
    /\ rv' = [rv EXCEPT ![t] = None]
    /\ Return(t)
    /\ UNCHANGED <<client, lock, device, op, rb, calls, result, hist>>
    /\ UNCHANGED others

\* after that disconnect: return None, leaving the lock
send_command_write_failed(t) ==
    /\ Running(t, "send_command_write_failed")
    /\ rv' = [rv EXCEPT ![t] = None]
    /\ Release
    /\ Return(t)
    /\ UNCHANGED <<client, device, op, rb, calls, result, hist>>
    /\ UNCHANGED others


\* variant of send_command_state: the decoded state is returned but not cached
send_command_state_no_store(t) ==
    /\ Running(t, "send_command_state")
    /\ Release
    /\ Return(t)
    /\ UNCHANGED <<client, device, op, rv, rb, calls, result, hist>>
    /\ UNCHANGED others

\* _send_command, after _wait_for_state: cache the state, leave the lock
send_command_state(t) ==
    /\ Running(t, "send_command_state")
    /\ latest_state' = IF rv[t] # None THEN rv[t] ELSE latest_state
    /\ Release
    /\ Return(t)
    /\ UNCHANGED <<reader, writer, buffer, device, op, rv, rb, calls, result, hist>>
    /\ UNCHANGED others

\* ---------------------------------------------------------- _wait_for_state
\* _wait_for_state, the reader check, then the first `await ... read(1024)`
wait_for_state(t) ==
    /\ Running(t, "wait_for_state")
    /\ IF reader = 0
       THEN /\ rv' = [rv EXCEPT ![t] = None]
            /\ hist' = [hist EXCEPT ![t].cause = "no_reader"]
            /\ Return(t)
       ELSE /\ Suspend(t, "wait_for_state_read")
            /\ hist' = [hist EXCEPT ![t].read = TRUE, ![t].cause = ""]
            /\ UNCHANGED rv
    /\ UNCHANGED <<client, lock, device, op, rb, calls, result>>
    /\ UNCHANGED others


\* variant of wait_for_state_timeout: a read timeout gives up and returns None
wait_for_state_timeout_returns(t) ==
    /\ Resumes(t, "wait_for_state_read")
    /\ reader # 0 /\ conn[reader] = "open"
    /\ hist' = [hist EXCEPT ![t].cause = "timeout"]
    /\ rv' = [rv EXCEPT ![t] = None]
    /\ Return(t)
    /\ UNCHANGED <<client, lock, device, op, rb, calls, result>>
    /\ UNCHANGED others

\* asyncio.TimeoutError: continue
wait_for_state_timeout(t) ==
    /\ Resumes(t, "wait_for_state_read")
    /\ reader # 0 /\ conn[reader] = "open"
    /\ hist' = [hist EXCEPT ![t].cause = "timeout"]
    /\ Suspend(t, "wait_for_state_read")
    /\ UNCHANGED <<client, lock, device, op, rv, rb, calls, result>>
    /\ UNCHANGED others

\* the read raises: OSError from the socket, or AttributeError when another
\* task has reset self.reader to None
wait_for_state_error(t) ==
    /\ Resumes(t, "wait_for_state_read")
    /\ IF reader = 0
       THEN UNCHANGED conn
       ELSE conn[reader] # "closed" /\ Break(reader)
    /\ hist' = [hist EXCEPT ![t].cause = IF reader = 0 THEN "reader_reset" ELSE "error"]
    /\ CallProc(t, "disconnect", "wait_for_state_failed")
    /\ UNCHANGED <<client, lock, inq, nconn, nframes, op, rv, rb, calls, result>>
    /\ UNCHANGED others


\* variant of wait_for_state_eof: end-of-stream returns None without
\* `await self.disconnect()`
wait_for_state_eof_keeps_session(t) ==
    /\ Resumes(t, "wait_for_state_read")
    /\ reader # 0 /\ inq[reader] = << >> /\ conn[reader] # "broken"
    /\ hist' = [hist EXCEPT ![t].cause = "eof"]
    /\ rv' = [rv EXCEPT ![t] = None]
    /\ Return(t)
    /\ UNCHANGED <<client, lock, device, op, rb, calls, result>>
    /\ UNCHANGED others

\* the read returns b"": the peer closed the stream, or writer.close() did
wait_for_state_eof(t) ==
    /\ Resumes(t, "wait_for_state_read")
    /\ reader # 0 /\ inq[reader] = << >> /\ conn[reader] # "broken"
    /\ hist' = [hist EXCEPT ![t].cause = "eof"]
    /\ CallProc(t, "disconnect", "wait_for_state_failed")
    /\ UNCHANGED <<client, lock, device, op, rv, rb, calls, result>>
    /\ UNCHANGED others

\* after the disconnect of a failed read: return None
wait_for_state_failed(t) ==
    /\ Running(t, "wait_for_state_failed")
    /\ rv' = [rv EXCEPT ![t] = None]
    /\ Return(t)
    /\ UNCHANGED <<client, lock, device, op, rb, calls, result, hist>>
    /\ UNCHANGED others


\* decoded_after once the first of the messages has been decoded
Decoded(messages) ==
    IF messages = << >> \/ parse_state_raises(messages[1]) THEN decoded_after
    ELSE [u \in Tasks |-> IF op[u] \in Setters
                          THEN decoded_after[u] \cup {parse_state(messages[1])}
                          ELSE decoded_after[u]]

\* variant of wait_for_state_data: a frame that fails to decode closes the
\* connection like a failed read
wait_for_state_data_disconnects(t) ==
    /\ Resumes(t, "wait_for_state_read")
    /\ reader # 0 /\ inq[reader] # << >> /\ conn[reader] # "broken"
    /\ \E n \in 1 .. limits.chunk :
         /\ n <= Len(inq[reader])
         /\ LET r == add_data(buffer, SubSeq(inq[reader], 1, n))
                msg == r.messages[1]
            IN  /\ buffer' = r.buffer
                /\ inq' = [inq EXCEPT ![reader] = SubSeq(@, n + 1, Len(@))]
                /\ IF r.messages = << >>
                   THEN /\ Suspend(t, "wait_for_state_read")
                        /\ UNCHANGED <<rv, hist>>
                   ELSE IF parse_state_raises(msg)
                   THEN /\ hist' = [hist EXCEPT ![t].cause = "decode_failed"]
                        /\ CallProc(t, "disconnect", "wait_for_state_failed")
                        /\ UNCHANGED rv
                   ELSE /\ rv' = [rv EXCEPT ![t] = parse_state(msg)]
                        /\ hist' = [hist EXCEPT ![t].cause = "decoded",
                                                ![t].decoded = parse_state(msg)]
                        /\ Return(t)
                /\ decoded_after' = Decoded(r.messages)
    /\ UNCHANGED <<reader, writer, latest_state, lock, conn, nconn, nframes,
                   op, rb, calls, result>>
    /\ UNCHANGED <<framing, codec, entities, devstate, locals>>

\* the read returns n units: feed the accumulator, decode the first message
wait_for_state_data(t) ==
    /\ Resumes(t, "wait_for_state_read")
    /\ reader # 0 /\ inq[reader] # << >> /\ conn[reader] # "broken"
    /\ \E n \in 1 .. limits.chunk :
         /\ n <= Len(inq[reader])
         /\ LET r == add_data(buffer, SubSeq(inq[reader], 1, n))
                msg == r.messages[1]
            IN  /\ buffer' = r.buffer
                /\ inq' = [inq EXCEPT ![reader] = SubSeq(@, n + 1, Len(@))]
                /\ IF r.messages = << >>
                   THEN /\ Suspend(t, "wait_for_state_read")
                        /\ UNCHANGED <<rv, hist>>
                   ELSE IF parse_state_raises(msg)
                   THEN /\ rv' = [rv EXCEPT ![t] = None]
                        /\ hist' = [hist EXCEPT ![t].cause = "decode_failed"]
                        /\ Return(t)
                   ELSE /\ rv' = [rv EXCEPT ![t] = parse_state(msg)]
                        /\ hist' = [hist EXCEPT ![t].cause = "decoded",
                                                ![t].decoded = parse_state(msg)]
                        /\ Return(t)
                /\ decoded_after' = Decoded(r.messages)
    /\ UNCHANGED <<reader, writer, latest_state, lock, conn, nconn, nframes,
                   op, rb, calls, result>>
    /\ UNCHANGED <<framing, codec, entities, devstate, locals>>
\* ---------------------------------------------------------------- get_state
get_state(t) ==
    /\ Running(t, "get_state")
    /\ hist' = [hist EXCEPT ![t].disc0 = ~connected, ![t].latest0 = latest_state]
    /\ IF connected
       THEN Goto(t, "get_state_cached")
       ELSE CallProc(t, "connect", "get_state_connected")
    /\ UNCHANGED <<client, lock, device, op, rv, rb, calls, result>>
    /\ UNCHANGED others

\* get_state, after `await self.connect()`
get_state_connected(t) ==
    /\ Running(t, "get_state_connected")
    /\ IF rb[t]
       THEN Goto(t, "get_state_cached") /\ UNCHANGED rv
       ELSE rv' = [rv EXCEPT ![t] = None] /\ Return(t)
    /\ UNCHANGED <<client, lock, device, op, rb, calls, result, hist>>
    /\ UNCHANGED others

\* get_state: return the cache, or `return await self._wait_for_state()`
get_state_cached(t) ==
    /\ Running(t, "get_state_cached")
    /\ IF latest_state # None
       THEN rv' = [rv EXCEPT ![t] = latest_state] /\ Return(t)
       ELSE CallProc(t, "wait_for_state", "get_state_fetched") /\ UNCHANGED rv
    /\ UNCHANGED <<client, lock, device, op, rb, calls, result, hist>>
    /\ UNCHANGED others

\* get_state returns what _wait_for_state returned
get_state_fetched(t) ==
    /\ Running(t, "get_state_fetched")
    /\ Return(t)
    /\ UNCHANGED <<client, lock, device, op, rv, rb, calls, result, hist>>
    /\ UNCHANGED others


\* variant of refresh_state: a connected session with a cached snapshot
\* answers from the cache, as get_state does
refresh_state_cached(t) ==
    /\ Running(t, "refresh_state")
    /\ IF connected /\ latest_state # None
       THEN rv' = [rv EXCEPT ![t] = latest_state] /\ Return(t)
       ELSE IF connected
       THEN CallProc(t, "send_command", "refresh_state_sent") /\ UNCHANGED rv
       ELSE CallProc(t, "connect", "refresh_state_connected") /\ UNCHANGED rv
    /\ UNCHANGED <<client, lock, device, op, rb, calls, result, hist>>
    /\ UNCHANGED others

\* ------------------------------------------------------------ refresh_state
refresh_state(t) ==
    /\ Running(t, "refresh_state")
    /\ IF connected
       THEN CallProc(t, "send_command", "refresh_state_sent")
       ELSE CallProc(t, "connect", "refresh_state_connected")
    /\ UNCHANGED <<client, lock, device, op, rv, rb, calls, result, hist>>
    /\ UNCHANGED others

\* refresh_state, after `await self.connect()`
refresh_state_connected(t) ==
    /\ Running(t, "refresh_state_connected")
    /\ IF rb[t]
       THEN CallProc(t, "send_command", "refresh_state_sent") /\ UNCHANGED rv
       ELSE rv' = [rv EXCEPT ![t] = None] /\ Return(t)
    /\ UNCHANGED <<client, lock, device, op, rb, calls, result, hist>>
    /\ UNCHANGED others

\* refresh_state returns what _send_command returned
refresh_state_sent(t) ==
    /\ Running(t, "refresh_state_sent")
    /\ Return(t)
    /\ UNCHANGED <<client, lock, device, op, rv, rb, calls, result, hist>>
    /\ UNCHANGED others

\* -------------------------------------------------------------- zone_toggle
\* zone_toggle, and alike every command that is one _send_command:
\* ac_power_toggle, ac_set_mode, ac_set_fan_speed, ac_temp_up, ac_temp_down,
\* zone_toggle_mode
zone_toggle(t) ==
    /\ Running(t, "zone_toggle")
    /\ CallProc(t, "send_command", "zone_toggle_sent")
    /\ UNCHANGED <<client, lock, device, op, rv, rb, calls, result, hist>>
    /\ UNCHANGED others

\* `return (await self._send_command(command)) is not None`
zone_toggle_sent(t) ==
    /\ Running(t, "zone_toggle_sent")
    /\ rb' = [rb EXCEPT ![t] = (rv[t] # None)]
    /\ Return(t)
    /\ UNCHANGED <<client, lock, device, op, rv, calls, result, hist>>
    /\ UNCHANGED others

\* ---------------------------------------------------------------- sync_time
sync_time(t) ==
    /\ Running(t, "sync_time")
    /\ IF connected
       THEN Goto(t, "sync_time_lock")
       ELSE CallProc(t, "connect", "sync_time_connected")
    /\ UNCHANGED <<client, lock, device, op, rv, rb, calls, result, hist>>
    /\ UNCHANGED others

\* sync_time, after `await self.connect()`
sync_time_connected(t) ==
    /\ Running(t, "sync_time_connected")
    /\ IF rb[t]
       THEN Goto(t, "sync_time_lock") /\ UNCHANGED rb
       ELSE rb' = [rb EXCEPT ![t] = FALSE] /\ Return(t)
    /\ UNCHANGED <<client, lock, device, op, rv, calls, result, hist>>
    /\ UNCHANGED others

\* sync_time, entering `async with self._lock`
sync_time_lock(t) ==
    /\ Running(t, "sync_time_lock")
    /\ IF LockFree
       THEN /\ lock_holder' = t /\ UNCHANGED lock_waiters
            /\ Goto(t, "sync_time_locked")
       ELSE /\ lock_waiters' = Append(lock_waiters, t) /\ UNCHANGED lock_holder
            /\ Suspend(t, "sync_time_acquire")
    /\ UNCHANGED <<client, device, op, rv, rb, calls, result, hist>>
    /\ UNCHANGED others

sync_time_acquire(t) ==
    /\ Resumes(t, "sync_time_acquire")
    /\ lock_holder = 0 /\ lock_waiters # << >> /\ Head(lock_waiters) = t
    /\ lock_holder' = t /\ lock_waiters' = Tail(lock_waiters)
    /\ Goto(t, "sync_time_locked")
    /\ UNCHANGED <<client, device, op, rv, rb, calls, result, hist>>
    /\ UNCHANGED others

\* sync_time inside the lock: `assert self.writer`, write, `await drain()`
sync_time_locked(t) ==
    /\ Running(t, "sync_time_locked")
    /\ IF writer # 0
       THEN /\ DeviceReceives(writer, "time")
            /\ hist' = [hist EXCEPT ![t].writes =
                            Append(@, [cmd |-> "time", conn |-> writer,
                                       hs |-> FALSE, sent |-> nframes])]
            /\ Suspend(t, "sync_time_drain")
            /\ UNCHANGED <<lock, op, rv, rb, result>>
       ELSE /\ Release
            /\ Raise(t)
            /\ UNCHANGED <<inq, nframes, devstate>>
    /\ UNCHANGED <<client, conn, nconn, calls, framing, codec, entities, locals, decoded_after>>

\* drain returns: leave the lock, return True
sync_time_drained(t) ==
    /\ Resumes(t, "sync_time_drain")
    /\ conn[Written(t)] = "open"
    /\ rb' = [rb EXCEPT ![t] = TRUE]
    /\ Release
    /\ Return(t)
    /\ UNCHANGED <<client, device, op, rv, calls, result, hist>>
    /\ UNCHANGED others

\* write or drain raises: `await self.disconnect()`
sync_time_drain_failed(t) ==
    /\ Resumes(t, "sync_time_drain")
    /\ Break(Written(t))
    /\ hist' = [hist EXCEPT ![t].cause = "write_failed"]
    /\ CallProc(t, "disconnect", "sync_time_write_failed")
    /\ UNCHANGED <<client, lock, inq, nconn, nframes, op, rv, rb, calls, result>>
    /\ UNCHANGED others

\* variant of sync_time_write_failed: the failed write is reported as success
sync_time_write_failed_returns_true(t) ==
    /\ Running(t, "sync_time_write_failed")
    /\ rb' = [rb EXCEPT ![t] = TRUE]
    /\ Release
    /\ Return(t)
    /\ UNCHANGED <<client, device, op, rv, calls, result, hist>>
    /\ UNCHANGED others

\* after that disconnect: return False, leaving the lock
sync_time_write_failed(t) ==
    /\ Running(t, "sync_time_write_failed")
    /\ rb' = [rb EXCEPT ![t] = FALSE]
    /\ Release
    /\ Return(t)
    /\ UNCHANGED <<client, device, op, rv, calls, result, hist>>
    /\ UNCHANGED others

\* ------------------------------------------------------ convergence setters
\* the arguments the setters are called with
AcTargets == MIN_TEMP - 1 .. MAX_TEMP + 1
DamperTargets == {0, 5, 7, 100}
ZoneTemperatureTargets == {MIN_TEMP - 1, MIN_TEMP, MIN_TEMP + 1, MAX_TEMP + 1}

\* the nudge commands
UpCommands == {"ac_temp_up", "zone_damper_up", "zone_value_up"}
DownCommands == {"ac_temp_down", "zone_damper_down", "zone_value_down"}

\* range(30), range(25), range(max_iterations)
Cap(o) == IF o = "ac_set_temperature" THEN AC_ITERATIONS ELSE ZONE_ITERATIONS

\* the target the loop of setter o compares with: zone_set_damper clamps it
Target(o, target) ==
    IF o = "zone_set_damper"
    THEN (IF target > 100 THEN 100 ELSE IF target < 0 THEN 0 ELSE target)
    ELSE target

\* the value of the device that setter o addresses, as a state frame shows it
DeviceValue(o, is_temperature) ==
    IF o = "ac_set_temperature" THEN ac_setpoint
    ELSE IF o = "zone_set_value" /\ is_temperature THEN zone_setpoint
    ELSE zone_damper * 5

\* A caller starts a setter for AC 0 or zone 0.
CallSetter(t, o, target, is_temperature) ==
    /\ cur = 0 /\ pc[t] = "idle" /\ calls < MaxCalls
    /\ op' = [op EXCEPT ![t] = o]
    /\ pc' = [pc EXCEPT ![t] = o]
    /\ stack' = [stack EXCEPT ![t] = <<"done">>]
    /\ calls' = calls + 1
    /\ cur' = t
    /\ locals' = [locals EXCEPT ![t] =
                      [NoLocals EXCEPT !.target = target,
                                       !.is_temperature = is_temperature,
                                       !.start = DeviceValue(o, is_temperature)]]
    /\ decoded_after' = [decoded_after EXCEPT ![t] = {}]
    /\ UNCHANGED <<client, lock, device, rv, rb, result, hist, devstate, framing, codec, entities>>

\* variant of ac_set_temperature: no range check
ac_set_temperature_no_check(t) ==
    /\ Running(t, "ac_set_temperature")
    /\ Goto(t, "setter_loop")
    /\ UNCHANGED <<client, lock, device, op, rv, rb, calls, result, hist>>
    /\ UNCHANGED others

\* ac_set_temperature: the range check, before the loop
ac_set_temperature(t) ==
    /\ Running(t, "ac_set_temperature")
    /\ IF locals[t].target < MIN_TEMP \/ locals[t].target > MAX_TEMP
       THEN rb' = [rb EXCEPT ![t] = FALSE] /\ Return(t)
       ELSE Goto(t, "setter_loop") /\ UNCHANGED rb
    /\ UNCHANGED <<client, lock, device, op, rv, calls, result, hist>>
    /\ UNCHANGED others

\* zone_set_damper: the target is clamped, then the loop
zone_set_damper(t) ==
    /\ Running(t, "zone_set_damper")
    /\ Goto(t, "setter_loop")
    /\ UNCHANGED <<client, lock, device, op, rv, rb, calls, result, hist>>
    /\ UNCHANGED others

\* zone_set_value: `state = await self.get_state()` before the loop
zone_set_value(t) ==
    /\ Running(t, "zone_set_value")
    /\ CallProc(t, "get_state", "setter_state")
    /\ UNCHANGED <<client, lock, device, op, rv, rb, calls, result, hist>>
    /\ UNCHANGED others

\* The loops of the three setters have the same steps.
\* variant of setter_loop: the loop runs one iteration beyond the cap
setter_loop_one_more(t) ==
    /\ Running(t, "setter_loop")
    /\ IF locals[t].i > Cap(op[t])
       THEN /\ rb' = [rb EXCEPT ![t] = FALSE]
            /\ Return(t)
            /\ UNCHANGED locals
       ELSE /\ locals' = [locals EXCEPT ![t].i = @ + 1]
            /\ IF op[t] = "zone_set_value"
               THEN Goto(t, "setter_compare")
               ELSE CallProc(t, "get_state", "setter_state")
            /\ UNCHANGED rb
    /\ UNCHANGED <<client, lock, device, op, rv, calls, result, hist>>
    /\ UNCHANGED <<devstate, framing, codec, entities, decoded_after>>

\* The head of the for loop: after the last iteration return False; else
\* ac_set_temperature and zone_set_damper call get_state, zone_set_value goes
\* on with the state it has.
setter_loop(t) ==
    /\ Running(t, "setter_loop")
    /\ IF locals[t].i >= Cap(op[t])
       THEN /\ rb' = [rb EXCEPT ![t] = FALSE]
            /\ Return(t)
            /\ UNCHANGED locals
       ELSE /\ locals' = [locals EXCEPT ![t].i = @ + 1]
            /\ IF op[t] = "zone_set_value"
               THEN Goto(t, "setter_compare")
               ELSE CallProc(t, "get_state", "setter_state")
            /\ UNCHANGED rb
    /\ UNCHANGED <<client, lock, device, op, rv, calls, result, hist>>
    /\ UNCHANGED <<devstate, framing, codec, entities, decoded_after>>

\* get_state has returned: `if state is None: return False`
setter_state(t) ==
    /\ Running(t, "setter_state")
    /\ IF rv[t] = None
       THEN /\ rb' = [rb EXCEPT ![t] = FALSE]
            /\ Return(t)
            /\ UNCHANGED locals
       ELSE /\ locals' = [locals EXCEPT ![t].state = rv[t]]
            /\ Goto(t, IF op[t] = "zone_set_value" THEN "setter_loop" ELSE "setter_compare")
            /\ UNCHANGED rb
    /\ UNCHANGED <<client, lock, device, op, rv, calls, result, hist>>
    /\ UNCHANGED <<devstate, framing, codec, entities, decoded_after>>

\* the value `current` that setter o reads from the state
Current(o, is_temperature, state) ==
    IF o = "ac_set_temperature" THEN ac_units_setpoint(state)
    ELSE IF o = "zone_set_value" /\ is_temperature THEN zones(state)[1].setpoint
    ELSE zones(state)[1].damper_percent

\* the nudge command setter o sends
Nudge(o, up) ==
    IF o = "ac_set_temperature" THEN (IF up THEN "ac_temp_up" ELSE "ac_temp_down")
    ELSE IF o = "zone_set_damper" THEN (IF up THEN "zone_damper_up" ELSE "zone_damper_down")
    ELSE (IF up THEN "zone_value_up" ELSE "zone_value_down")

\* variant of setter_compare: the nudge is sent before the value is compared
\* with the target for the first time
setter_compare_after_nudge(t) ==
    /\ Running(t, "setter_compare")
    /\ LET l == locals[t]
           o == op[t]
           target == Target(o, l.target)
       IN  IF o # "ac_set_temperature" /\ 0 >= Len(zones(l.state))
           THEN /\ rb' = [rb EXCEPT ![t] = FALSE]
                /\ Return(t)
                /\ UNCHANGED locals
           ELSE IF o = "zone_set_value" /\ l.is_temperature /\ zones(l.state)[1].setpoint = 0
           THEN /\ rb' = [rb EXCEPT ![t] = FALSE]
                /\ Return(t)
                /\ UNCHANGED locals
           ELSE LET current == Current(o, l.is_temperature, l.state)
                IN  IF current = target /\ l.first # -1
                    THEN /\ rb' = [rb EXCEPT ![t] = TRUE]
                         /\ Return(t)
                         /\ locals' = [locals EXCEPT ![t].current = current]
                    ELSE /\ locals' = [locals EXCEPT
                                 ![t].current = current,
                                 ![t].first = IF @ = -1 THEN current ELSE @,
                                 ![t].command = Nudge(o, current <= target)]
                         /\ CallProc(t, "send_command", "setter_nudged")
                         /\ UNCHANGED rb
    /\ UNCHANGED <<client, lock, device, op, rv, calls, result, hist>>
    /\ UNCHANGED <<devstate, framing, codec, entities, decoded_after>>

\* One iteration, from the state to the nudge: the zone index check, the
\* value read, `if current == target: return True`, else the nudge up or down
\* through _send_command.
setter_compare(t) ==
    /\ Running(t, "setter_compare")
    /\ LET l == locals[t]
           o == op[t]
           target == Target(o, l.target)
       IN  IF o # "ac_set_temperature" /\ 0 >= Len(zones(l.state))
           THEN /\ rb' = [rb EXCEPT ![t] = FALSE]
                /\ Return(t)
                /\ UNCHANGED locals
           ELSE IF o = "zone_set_value" /\ l.is_temperature /\ zones(l.state)[1].setpoint = 0
           THEN /\ rb' = [rb EXCEPT ![t] = FALSE]
                /\ Return(t)
                /\ UNCHANGED locals
           ELSE LET current == Current(o, l.is_temperature, l.state)
                IN  IF current = target
                    THEN /\ rb' = [rb EXCEPT ![t] = TRUE]
                         /\ Return(t)
                         /\ locals' = [locals EXCEPT
                                          ![t].current = current,
                                          ![t].first = IF @ = -1 THEN current ELSE @]
                    ELSE /\ locals' = [locals EXCEPT
                                 ![t].current = current,
                                 ![t].first = IF @ = -1 THEN current ELSE @,
                                 ![t].command = Nudge(o, current < target)]
                         /\ CallProc(t, "send_command", "setter_nudged")
                         /\ UNCHANGED rb
    /\ UNCHANGED <<client, lock, device, op, rv, calls, result, hist>>
    /\ UNCHANGED <<devstate, framing, codec, entities, decoded_after>>

\* variant of setter_nudged: a nudge that returned None does not end the loop
setter_nudged_ignores_failure(t) ==
    /\ Running(t, "setter_nudged")
    /\ locals' = IF op[t] = "zone_set_value" /\ rv[t] # None
                 THEN [locals EXCEPT ![t].state = rv[t]]
                 ELSE locals
    /\ Goto(t, "setter_loop")
    /\ UNCHANGED <<client, lock, device, op, rv, rb, calls, result, hist>>
    /\ UNCHANGED <<devstate, framing, codec, entities, decoded_after>>

\* The nudge's _send_command has returned.  None makes the setter return
\* False (ac_temp_up and ac_temp_down return `... is not None`); else the loop
\* goes on, zone_set_value keeping the state returned.
setter_nudged(t) ==
    /\ Running(t, "setter_nudged")
    /\ IF rv[t] = None
       THEN /\ rb' = [rb EXCEPT ![t] = FALSE]
            /\ Return(t)
            /\ UNCHANGED locals
       ELSE /\ locals' = IF op[t] = "zone_set_value"
                         THEN [locals EXCEPT ![t].state = rv[t]]
                         ELSE locals
            /\ Goto(t, "setter_loop")
            /\ UNCHANGED rb
    /\ UNCHANGED <<client, lock, device, op, rv, calls, result, hist>>
    /\ UNCHANGED <<devstate, framing, codec, entities, decoded_after>>

\* the steps of the setters
SetterSteps(t) ==
    \/ ac_set_temperature(t) \/ zone_set_damper(t) \/ zone_set_value(t)
    \/ setter_loop(t) \/ setter_state(t) \/ setter_compare(t) \/ setter_nudged(t)

\* ------------------------------------- one caller, a device that answers
\* A device that moves one step per nudge ("steps") or never ("stuck"), with
\* one zone or none.  Its values are within their ranges, or AC 0 reports the
\* setpoint that lies the iteration cap below MAX_TEMP (the setpoint byte of
\* a state frame carries 0 .. 127).
InitDevice ==
    /\ Constructed /\ NoFraming
    /\ limits = [conns |-> MaxConn, frames |-> MaxFrames, chunk |-> MaxChunk]
    /\ device_kind \in {"steps", "stuck"}
    /\ dev_zones \in {0, 1}
    /\ ac_setpoint \in (MIN_TEMP .. MAX_TEMP) \cup {MAX_TEMP - AC_ITERATIONS}
    /\ IF dev_zones = 0
       THEN zone_damper = 0 /\ zone_setpoint = 0
       ELSE zone_damper \in {0, 1, DAMPER_MAX} /\ zone_setpoint \in {0, MIN_TEMP, MAX_TEMP}

\* the one caller
Caller == 1

\* Every transport opens, every write, drain and read succeeds, and every
\* command is answered before the read times out.
NextDevice ==
    \/ \E target \in AcTargets : CallSetter(Caller, "ac_set_temperature", target, FALSE)
    \/ \E target \in DamperTargets : CallSetter(Caller, "zone_set_damper", target, FALSE)
    \/ \E target \in ZoneTemperatureTargets : CallSetter(Caller, "zone_set_value", target, TRUE)
    \/ \E target \in DamperTargets : CallSetter(Caller, "zone_set_value", target, FALSE)
    \/ Done(Caller)
    \/ SetterSteps(Caller)
    \/ get_state(Caller) \/ get_state_connected(Caller) \/ get_state_cached(Caller)
    \/ connect(Caller) \/ connect_open_ok(Caller)
    \/ connect_after_init(Caller) \/ connect_failed(Caller)
    \/ disconnect(Caller) \/ disconnect_wait_closed(Caller)
    \/ send_command(Caller) \/ send_command_lock(Caller) \/ send_command_locked(Caller)
    \/ send_command_drained(Caller) \/ send_command_state(Caller)
    \/ wait_for_state(Caller) \/ wait_for_state_data(Caller)

SpecDevice == InitDevice /\ [][NextDevice]_vars

\* --------------------------------- concurrent callers, I/O that can fail
\* the targets the concurrent callers ask for: the value the device has, two
\* steps above it, out of range
NearTargets == {MIN_TEMP, MIN_TEMP + 2, MAX_TEMP + 1}

\* what the other callers do meanwhile: the coordinator's poll, a command
Others == {"refresh_state", "zone_toggle"}

\* A device that answers a command or not and moves one step per nudge, AC 0
\* at MIN_TEMP; its frames report one zone or none.
InitSetters ==
    /\ Constructed /\ NoFraming
    /\ limits = [conns |-> MaxConn, frames |-> MaxFrames, chunk |-> MaxChunk]
    /\ device_kind = "any"
    /\ dev_zones = 1
    /\ ac_setpoint = MIN_TEMP /\ zone_damper = 0 /\ zone_setpoint = 0

NextSetters ==
    \E t \in Tasks :
        \/ \E target \in NearTargets : CallSetter(t, "ac_set_temperature", target, FALSE)
        \/ CallSetter(t, "zone_set_damper", 5, FALSE)
        \/ CallSetter(t, "zone_set_value", MIN_TEMP, TRUE)
        \/ \E o \in Others : Call(t, o)
        \/ Done(t)
        \/ SetterSteps(t)
        \/ connect(t) \/ connect_open_ok(t) \/ connect_open_fail(t)
        \/ connect_after_init(t) \/ connect_failed(t)
        \/ disconnect(t) \/ disconnect_wait_closed(t)
        \/ send_command(t) \/ send_command_connected(t) \/ send_command_lock(t)
        \/ send_command_acquire(t) \/ send_command_locked(t)
        \/ send_command_drained(t) \/ send_command_drain_failed(t)
        \/ send_command_write_failed(t) \/ send_command_state(t)
        \/ wait_for_state(t) \/ wait_for_state_timeout(t)
        \/ wait_for_state_error(t) \/ wait_for_state_eof(t)
        \/ wait_for_state_failed(t) \/ wait_for_state_data(t)
        \/ get_state(t) \/ get_state_connected(t) \/ get_state_cached(t)
        \/ get_state_fetched(t)
        \/ refresh_state(t) \/ refresh_state_connected(t)
        \/ refresh_state_sent(t)
        \/ zone_toggle(t) \/ zone_toggle_sent(t)

SpecSetters == InitSetters /\ [][NextSetters]_vars

\* ------------------------------------------------------------ specification
Next ==
    \E t \in Tasks :
        \/ \E o \in Ops : Call(t, o)
        \/ Done(t)
        \/ connect(t) \/ connect_open_ok(t) \/ connect_open_fail(t)
        \/ connect_after_init(t) \/ connect_failed(t)
        \/ disconnect(t) \/ disconnect_wait_closed(t)
        \/ send_command(t) \/ send_command_connected(t) \/ send_command_lock(t)
        \/ send_command_acquire(t) \/ send_command_locked(t)
        \/ send_command_drained(t) \/ send_command_drain_failed(t)
        \/ send_command_write_failed(t) \/ send_command_state(t)
        \/ wait_for_state(t) \/ wait_for_state_timeout(t)
        \/ wait_for_state_error(t) \/ wait_for_state_eof(t)
        \/ wait_for_state_failed(t) \/ wait_for_state_data(t)
        \/ get_state(t) \/ get_state_connected(t) \/ get_state_cached(t)
        \/ get_state_fetched(t)
        \/ refresh_state(t) \/ refresh_state_connected(t)
        \/ refresh_state_sent(t)
        \/ zone_toggle(t) \/ zone_toggle_sent(t)
        \/ sync_time(t) \/ sync_time_connected(t) \/ sync_time_lock(t)
        \/ sync_time_acquire(t) \/ sync_time_locked(t) \/ sync_time_drained(t)
        \/ sync_time_drain_failed(t) \/ sync_time_write_failed(t)

Spec == Init /\ [][Next]_vars

\* ------------------------------------- concurrent sends, a fair event loop
\* a step of a zone_toggle or sync_time that task t has begun
FairStep(t) ==
    \/ Done(t)
    \/ connect(t) \/ connect_open_ok(t) \/ connect_open_fail(t)
    \/ connect_after_init(t) \/ connect_failed(t)
    \/ disconnect(t) \/ disconnect_wait_closed(t)
    \/ send_command(t) \/ send_command_connected(t) \/ send_command_lock(t)
    \/ send_command_acquire(t) \/ send_command_locked(t)
    \/ send_command_drained(t) \/ send_command_drain_failed(t)
    \/ send_command_write_failed(t) \/ send_command_state(t)
    \/ wait_for_state(t) \/ wait_for_state_timeout(t)
    \/ wait_for_state_error(t) \/ wait_for_state_eof(t)
    \/ wait_for_state_failed(t) \/ wait_for_state_data(t)
    \/ zone_toggle(t) \/ zone_toggle_sent(t)
    \/ sync_time(t) \/ sync_time_connected(t) \/ sync_time_lock(t)
    \/ sync_time_acquire(t) \/ sync_time_locked(t) \/ sync_time_drained(t)
    \/ sync_time_drain_failed(t) \/ sync_time_write_failed(t)

\* the callers send commands with a response (zone_toggle) and without
\* (sync_time)
NextFair ==
    \E t \in Tasks : (\E o \in {"zone_toggle", "sync_time"} : Call(t, o)) \/ FairStep(t)

\* The event loop resumes every coroutine whose await has completed, and the
\* device answers every command or closes the connection: a read does not
\* time out for ever.  (A repeated read timeout changes nothing, so it is
\* not a step that fairness counts.)
\* The device is that of InitSetters: its frames report one zone or none.
FairSpec == InitSetters /\ [][NextFair]_vars /\ \A t \in Tasks : WF_vars(FairStep(t))

\* ------------------------------------------------ a session that reconnects
\* As Init, with one transport, one state frame and one unit per read more:
\* a session that was disconnected can be connected again, two connect()
\* calls can both open a transport, and one read can complete two frames.
\* The device reports one zone or none.
InitReconnect ==
    /\ Constructed
    /\ limits = [conns |-> MaxConn + 1, frames |-> MaxFrames + 1, chunk |-> MaxChunk + 1]
    /\ device_kind = "any" /\ dev_zones = 1
    /\ ac_setpoint = MIN_TEMP /\ zone_damper = 0 /\ zone_setpoint = 0
    /\ NoFraming

SpecReconnect == InitReconnect /\ [][Next]_vars

TypeOK ==
    /\ reader \in 0 .. limits.conns /\ writer \in 0 .. limits.conns
    /\ lock_holder \in {0} \cup Tasks
    /\ cur \in {0} \cup Tasks
    /\ nconn \in 0 .. limits.conns /\ nframes \in 0 .. limits.frames
    /\ Len(buffer) < STATE_MSG_SIZE
    /\ (reader = 0) <=> (writer = 0)

\* ----------------------------------------------------------- pure functions
\* The command encoder and the field decoders, applied to arguments drawn
\* from bounded sets.  The constants they read from const (the header, length
\* and command-code bytes) are parameters here, so that a frame is built for
\* every value they may have.
\* models.AcMode and models.FanSpeed (IntEnum)
AcMode == [AUTO |-> 0, HEAT |-> 1, DRY |-> 2, FAN |-> 3, COOL |-> 4]
FanSpeed == [AUTO |-> 0, QUIET |-> 1, LOW |-> 2, MEDIUM |-> 3, HIGH |-> 4, POWERFUL |-> 5]

\* the brands with remapped modes and the brand with shifted fan speeds
BRAND_REMAP_11 == 11
BRAND_REMAP_15 == 15
BRAND_SPECIAL_FAN == 2

\* the zone slots of a state frame
STATE_ZONE_MAX == 16

\* Python's sum and dict.get
RECURSIVE sum(_)
sum(message) == IF message = << >> THEN 0 ELSE Head(message) + sum(Tail(message))
Get(dict, key, default) == IF key \in DOMAIN dict THEN dict[key] ELSE default

\* variant of create_command: the parameters are not reduced to a byte
create_command_unmasked(MSG_HEADER, MSG_LENGTH, cmd, p1, p2, p3) ==
    LET message == <<MSG_HEADER, cmd, MSG_LENGTH, p1, p2, p3, 0, 0, 0, 0, 0, 0>>
        checksum == sum(message) % 256
    IN  Append(message, checksum)

\* _create_command
create_command(MSG_HEADER, MSG_LENGTH, cmd, p1, p2, p3) ==
    LET message == <<MSG_HEADER, cmd, MSG_LENGTH, p1 % 256, p2 % 256, p3 % 256,
                     0, 0, 0, 0, 0, 0>>
        checksum == sum(message) % 256
    IN  Append(message, checksum)

\* variant of create_time_sync_command: the minute field is not clamped
create_time_sync_command_minute_unclamped(MSG_HEADER, MSG_LENGTH, CMD_TIME_SYNC, when) ==
    LET min(a, b) == IF a < b THEN a ELSE b
        max(a, b) == IF a > b THEN a ELSE b
        year == when.year % 100
        month == min(11, max(0, when.month - 1))
        day == min(30, max(0, when.day - 1))
        hour == min(23, max(0, when.hour))
        minute == when.minute - 1
        message == <<MSG_HEADER, CMD_TIME_SYNC, MSG_LENGTH, year, month, day, hour, minute,
                     0, 0, 0, 0>>
        checksum == sum(message) % 256
    IN  Append(message, checksum)

\* _create_time_sync_command
create_time_sync_command(MSG_HEADER, MSG_LENGTH, CMD_TIME_SYNC, when) ==
    LET min(a, b) == IF a < b THEN a ELSE b
        max(a, b) == IF a > b THEN a ELSE b
        year == when.year % 100
        month == min(11, max(0, when.month - 1))
        day == min(30, max(0, when.day - 1))
        hour == min(23, max(0, when.hour))
        minute == min(58, max(0, when.minute - 1))
        message == <<MSG_HEADER, CMD_TIME_SYNC, MSG_LENGTH, year, month, day, hour, minute,
                     0, 0, 0, 0>>
        checksum == sum(message) % 256
    IN  Append(message, checksum)

\* variant of encode_mode: the brand remap is left out
encode_mode_no_remap(mode, brand) == mode

\* _encode_mode
encode_mode(mode, brand) ==
    LET value == mode
    IN  IF brand = BRAND_REMAP_11
        THEN Get((0 :> 0 @@ 1 :> 2 @@ 2 :> 3 @@ 3 :> 4 @@ 4 :> 1), value, value)
        ELSE IF brand = BRAND_REMAP_15
        THEN Get((0 :> 5 @@ 1 :> 2 @@ 2 :> 3 @@ 3 :> 4 @@ 4 :> 1), value, value)
        ELSE value

\* _decode_mode: AcMode(value) raises ValueError for a value that is no
\* member, which is caught
decode_mode(value, brand) ==
    LET decode == (0 :> 0 @@ 1 :> 4 @@ 2 :> 1 @@ 3 :> 2 @@ 4 :> 3 @@ 5 :> 0)
        v == IF brand \in {BRAND_REMAP_11, BRAND_REMAP_15}
             THEN Get(decode, value, value) ELSE value
    IN  IF v \in {AcMode[k] : k \in DOMAIN AcMode} THEN v ELSE AcMode.AUTO

\* _decode_fan_speed
decode_fan_speed(value, brand, supported) ==
    IF brand = BRAND_REMAP_15 /\ value = 4 THEN FanSpeed.AUTO
    ELSE IF value = 0 \/ value >= 5 THEN FanSpeed.AUTO
    ELSE LET v == IF brand = BRAND_SPECIAL_FAN /\ supported >= 4
                  THEN (IF value - 1 > 1 THEN value - 1 ELSE 1) ELSE value
             mapping == (1 :> FanSpeed.LOW @@ 2 :> FanSpeed.MEDIUM @@ 3 :> FanSpeed.HIGH
                         @@ 4 :> FanSpeed.POWERFUL)
         IN  Get(mapping, v, FanSpeed.AUTO)

\* _encode_fan_speed
encode_fan_speed(speed, brand, supported) ==
    IF speed = FanSpeed.AUTO
    THEN IF brand = BRAND_REMAP_15 THEN 4 ELSE 0
    ELSE LET value_map == (FanSpeed.QUIET :> 1 @@ FanSpeed.LOW :> 1 @@ FanSpeed.MEDIUM :> 2
                           @@ FanSpeed.HIGH :> 3 @@ FanSpeed.POWERFUL :> 4)
             value == Get(value_map, speed, 0)
         IN  IF brand = BRAND_SPECIAL_FAN /\ supported >= 4 THEN value + 1 ELSE value

\* The zone bytes of a frame are modelled per slot 0 .. STATE_ZONE_MAX - 1:
\* data.group[i], data.zone_data[i], data.damper[i] and data.feedback[i] are
\* the bytes at OFFSET_GROUP_DATA + i, OFFSET_ZONE_DATA + i, OFFSET_ZONE_DAMPER
\* + i and OFFSET_ZONE_FEEDBACK + i.
\* the data index of a zone: the high nibble of its group-assignment byte
data_index(data, zone_num) ==
    LET group_byte == data.group[zone_num]
        index == (group_byte \div 16) % 16
    IN  IF ~(0 <= index /\ index < STATE_ZONE_MAX) THEN zone_num ELSE index

\* variant of damper_percent: the top bit is not masked off
damper_percent_unmasked(damper_byte) ==
    IF damper_byte * 5 < 100 THEN damper_byte * 5 ELSE 100

\* damper_percent of a damper byte
damper_percent(damper_byte) ==
    LET damper_value == damper_byte % 128
    IN  IF damper_value * 5 < 100 THEN damper_value * 5 ELSE 100

\* variant of setpoint: the sensor source is not looked at
setpoint_any_source(feedback) == (feedback % 32) + 1

\* setpoint of a feedback byte; 0 is None
setpoint(feedback) ==
    LET sensor_source == (feedback \div 32) % 8
        setpoint_raw == feedback % 32
    IN  IF sensor_source > 0 THEN setpoint_raw + 1 ELSE 0

\* variant of ZoneState: the feedback byte is read at the data index
ZoneState_feedback_at_data_index(data, zone_num) ==
    LET index == data_index(data, zone_num)
        zone_data == data.zone_data[index]
        temp_control_byte == data.damper[zone_num]
        feedback == data.feedback[index]
    IN  [zone_number |-> zone_num,
         data_index |-> index,
         is_on |-> (zone_data \div 128) % 2 = 1,
         is_spill |-> (zone_data \div 64) % 2 = 1,
         damper_percent |-> damper_percent(data.damper[index]),
         active_program |-> (zone_data \div 4) % 8,
         setpoint |-> setpoint(feedback),
         sensor_source |-> (feedback \div 32) % 8,
         temperature_control |-> (temp_control_byte \div 128) % 2 = 1]

\* The keyword arguments that the zone loop of _parse_state passes to
\* ZoneState(...) for zone zone_num, but for name and has_sensor, which rest
\* on other bytes of the frame.
ZoneState(data, zone_num) ==
    LET index == data_index(data, zone_num)
        zone_data == data.zone_data[index]
        temp_control_byte == data.damper[zone_num]
        feedback == data.feedback[zone_num]
    IN  [zone_number |-> zone_num,
         data_index |-> index,
         is_on |-> (zone_data \div 128) % 2 = 1,
         is_spill |-> (zone_data \div 64) % 2 = 1,
         damper_percent |-> damper_percent(data.damper[index]),
         active_program |-> (zone_data \div 4) % 8,
         setpoint |-> setpoint(feedback),
         sensor_source |-> (feedback \div 32) % 8,
         temperature_control |-> (temp_control_byte \div 128) % 2 = 1]

\* ------------------------------------------------ arguments that are tried
\* brand identifiers: the three special ones and two others
Brands == {0, 7, BRAND_SPECIAL_FAN, BRAND_REMAP_11, BRAND_REMAP_15}

\* The zones decoded: zone 0 or 1 with its data at slot 0 or 1; the
\* zone-data, damper and feedback bytes of both slots from a few values, or
\* every value of the feedback byte of the zone, or every value of the damper
\* byte of its data slot; all other bytes zero.
ZoneInputs ==
    LET SlotSamples == {0, 220, 132} \X {0, 133, 127} \X {0, 59, 31}
        Grouped(z, g) ==
            [group |-> [i \in 0 .. STATE_ZONE_MAX - 1 |-> IF i = z THEN g ELSE 0],
             zone_data |-> [i \in 0 .. STATE_ZONE_MAX - 1 |-> 0],
             damper |-> [i \in 0 .. STATE_ZONE_MAX - 1 |-> 0],
             feedback |-> [i \in 0 .. STATE_ZONE_MAX - 1 |-> 0]]
        Poke(data, i, bytes) ==
            [data EXCEPT !.zone_data[i] = bytes[1], !.damper[i] = bytes[2],
                         !.feedback[i] = bytes[3]]
    IN  UNION {
            {<<Poke(Poke(Grouped(z, g), 0, s0), 1, s1), z>> :
                s0 \in SlotSamples, s1 \in SlotSamples}
            \cup {<<[Grouped(z, g) EXCEPT !.feedback[z] = b], z>> : b \in 0 .. 255}
            \cup {<<[Grouped(z, g) EXCEPT !.damper[(g \div 16) % 16] = b], z>> :
                      b \in 0 .. 255}
            : z \in {0, 1}, g \in {0, 16, 31}}

\* ---------------------------------------------------------- applications
\* function fn is applied to args and returns value
Apply(fn, args, value) ==
    /\ applied' = [fn |-> fn, args |-> args]
    /\ returned' = value
    /\ UNCHANGED <<client, lock, device, cur, op, pc, stack, rv, rb, calls, result,
                   hist, devstate, framing, entities, locals, decoded_after>>

\* _create_command is applied: const.MSG_HEADER and const.MSG_LENGTH are h,
\* the command code is a byte, the parameters are bytes or other integers
apply_create_command ==
    /\ applied = NoCall
    /\ \E h \in {<<0, 9>>, <<85, 9>>, <<255, 9>>, <<85, 255>>},
          cmd \in {0, 1, 127, 128, 255},
          p1 \in {-1, 0, 1, 255, 256, 300}, p2 \in {-1, 0, 1, 255, 256, 300},
          p3 \in {-1, 0, 1, 255, 256, 300} :
           Apply("create_command", <<h[1], h[2], cmd, p1, p2, p3>>,
                 create_command(h[1], h[2], cmd, p1, p2, p3))

\* _create_time_sync_command is applied to a datetime, whose fields keep the
\* ranges datetime gives them
apply_create_time_sync_command ==
    /\ applied = NoCall
    /\ \E h \in {<<0, 9>>, <<85, 9>>, <<255, 9>>, <<85, 255>>}, cmd \in {0, 139},
          when \in [year : {1, 1999, 2000, 2026, 9999}, month : 1 .. 12,
                    day : {1, 2, 31}, hour : {0, 12, 23}, minute : {0, 1, 59}] :
           Apply("create_time_sync_command", <<h[1], h[2], cmd, when>>,
                 create_time_sync_command(h[1], h[2], cmd, when))

apply_encode_mode ==
    /\ applied = NoCall
    /\ \E mode \in {AcMode[k] : k \in DOMAIN AcMode}, brand \in Brands :
           Apply("encode_mode", <<mode, brand>>, encode_mode(mode, brand))

\* mode_raw is a byte & 0x7F
apply_decode_mode ==
    /\ applied = NoCall
    /\ \E value \in 0 .. 127, brand \in Brands :
           Apply("decode_mode", <<value, brand>>, decode_mode(value, brand))

apply_encode_fan_speed ==
    /\ applied = NoCall
    /\ \E speed \in {FanSpeed[k] : k \in DOMAIN FanSpeed}, brand \in Brands, supported \in 0 .. 15 :
           Apply("encode_fan_speed", <<speed, brand, supported>>,
                 encode_fan_speed(speed, brand, supported))

\* fan_speed_value and supported_bitmap are the nibbles of the fan byte
apply_decode_fan_speed ==
    /\ applied = NoCall
    /\ \E value \in 0 .. 15, brand \in Brands, supported \in 0 .. 15 :
           Apply("decode_fan_speed", <<value, brand, supported>>,
                 decode_fan_speed(value, brand, supported))

\* The zone loop computes the arguments of ZoneState(...) for one zone.  The
\* call that receives them raises TypeError (parse_state_raises); what is
\* decoded are these arguments.
apply_ZoneState ==
    /\ applied = NoCall
    /\ \E input \in ZoneInputs :
           Apply("ZoneState", input, ZoneState(input[1], input[2]))

InitCodec ==
    /\ Constructed /\ NoFraming
    /\ limits = [conns |-> MaxConn, frames |-> MaxFrames, chunk |-> MaxChunk]
    /\ device_kind = "any" /\ dev_zones = 0
    /\ ac_setpoint = MIN_TEMP /\ zone_damper = 0 /\ zone_setpoint = 0

NextCodec ==
    \/ apply_create_command
    \/ apply_create_time_sync_command
    \/ apply_encode_mode
    \/ apply_decode_mode
    \/ apply_encode_fan_speed
    \/ apply_decode_fan_speed
    \/ apply_ZoneState

SpecCodec == InitCodec /\ [][NextCodec]_vars

\* ------------------------------------------------------- points of interest
\* connect has just returned rb[t] to task t
ConnectReturned(t) ==
    /\ cur = t
    /\ \/ pc[t] \in {"send_command_connected", "get_state_connected",
                     "refresh_state_connected", "sync_time_connected"}
       \/ pc[t] = "done" /\ op[t] = "connect"

\* a _send_command of the operation itself (not connect's handshake) has
\* just returned rv[t] to task t
SendReturned(t) ==
    cur = t /\ pc[t] \in {"zone_toggle_sent", "refresh_state_sent"}

\* any _send_command has just returned rv[t] to task t
AnySendReturned(t) ==
    cur = t /\ pc[t] \in {"zone_toggle_sent", "refresh_state_sent", "connect_after_init"}

\* _wait_for_state has just returned rv[t] to task t
WaitReturned(t) ==
    cur = t /\ pc[t] \in {"send_command_state", "get_state_fetched"}

\* task t is at a socket write or a socket read
AtSocket(t) ==
    pc[t] \in {"send_command_drain", "sync_time_drain", "wait_for_state_read"}

\* task t is inside a _send_command of its operation (not connect's handshake)
InOwnSend(t) ==
    \/ pc[t] = "send_command_state" /\ Head(stack[t]) # "connect_after_init"
    \/ \E i \in 1 .. Len(stack[t]) - 1 :
           stack[t][i] = "send_command_state" /\ stack[t][i + 1] # "connect_after_init"

\* the step is one of task t
StepOf(t) == pc'[t] # pc[t] \/ stack'[t] # stack[t]

\* the writes of the operation of task t that are not connect's handshake
OwnWrites(t) == {i \in 1 .. Len(hist[t].writes) : ~hist[t].writes[i].hs}

\* another task is inside a disconnect() its caller asked for, after
\* writer.close()
DisconnectCalledBeside(t) ==
    \E u \in Tasks \ {t} : op[u] = "disconnect" /\ pc[u] = "disconnect_wait_closed"

\* ------------------------------------------- the entities of one zone
\* The setpoint sensor, the Setpoint Down button and the power switch of zone
\* 0, a zone in temperature mode, over the coordinator's data.  entities:
\*   setup       the coordinator's first refresh has been made
\*   data        the zone in coordinator.data: is_on, setpoint
\*   zone        the zone of the device: is_on, setpoint
\*   optimistic  AirTouch3ZoneSetpointSensor._optimistic_values: no entry, or
\*               one entry with its value, its direction, the time since its
\*               timestamp (age, in seconds) and the button that stored it
\*   pressed     where an async_press is: "" (not running), "set" (after
\*               set_optimistic_value)
\*   start_on    the device's zone was on at the first refresh
\*   turn_ons, turn_offs, toggles
\*               calls of async_turn_on and async_turn_off made, zone-toggle
\*               commands sent
\*   last        the handler that ran last
OPTIMISTIC_TIMEOUT == 30

\* entities becomes e, the client is left alone
Entities(e) ==
    /\ entities' = e
    /\ UNCHANGED <<client, lock, device, cur, op, pc, stack, rv, rb, calls, result,
                   hist, devstate, framing, codec, locals, decoded_after>>

\* AirTouch3ZoneSetpointSensor._handle_coordinator_update: the registry after
\* an update that shows the setpoint `actual`
handle_coordinator_update(optimistic_values, actual) ==
    IF optimistic_values = << >> THEN optimistic_values
    ELSE LET optimistic_value == optimistic_values[1].value
             direction == optimistic_values[1].direction
         IN  IF optimistic_values[1].age > OPTIMISTIC_TIMEOUT THEN << >>
             ELSE IF direction = "up" /\ actual >= optimistic_value THEN << >>
             ELSE IF direction = "down" /\ actual <= optimistic_value THEN << >>
             ELSE optimistic_values

\* AirTouch3Coordinator._async_update_data and the listeners' update: the
\* data is the zone as the device has it.  The first refresh finds the zone
\* on or off, at some setpoint.
async_update_data ==
    /\ entities.pressed = ""
    /\ \E is_on \in BOOLEAN, value \in {MIN_TEMP, MIN_TEMP + 1, MAX_TEMP} :
          LET zone == IF entities.setup THEN entities.zone
                      ELSE [is_on |-> is_on, setpoint |-> value]
          IN  Entities([entities EXCEPT
                  !.setup = TRUE, !.zone = zone, !.data = zone,
                  !.start_on = IF entities.setup THEN @ ELSE is_on,
                  !.optimistic = handle_coordinator_update(@, zone.setpoint),
                  !.last = "update"])

\* AirTouch3SetpointDownButton.async_press, up to set_optimistic_value: the
\* call passes no direction, so the entry gets the default, 'up'
async_press ==
    /\ entities.setup /\ entities.pressed = ""
    /\ LET new_value == IF entities.data.setpoint - 1 > MIN_TEMP
                        THEN entities.data.setpoint - 1 ELSE MIN_TEMP
       IN  Entities([entities EXCEPT
               !.optimistic = <<[value |-> new_value, direction |-> "up", age |-> 0,
                                 button |-> "down"]>>,
               !.pressed = "set", !.last = "press"])

\* async_press goes on: async_set_updated_data(self.coordinator.data) updates
\* the listeners with the data as it is, then zone_value_down is sent, which
\* the device applies or not
async_press_update ==
    /\ entities.pressed = "set"
    /\ \E applied_down \in BOOLEAN :
          Entities([entities EXCEPT
              !.optimistic = handle_coordinator_update(@, entities.data.setpoint),
              !.zone.setpoint = IF applied_down /\ @ > MIN_TEMP THEN @ - 1 ELSE @,
              !.pressed = "", !.last = "update"])

\* time.monotonic() advances by d seconds
tick(d) ==
    /\ entities.optimistic # << >>
    /\ entities.optimistic[1].age <= OPTIMISTIC_TIMEOUT
    /\ Entities([entities EXCEPT
            !.optimistic[1].age = IF @ + d > OPTIMISTIC_TIMEOUT
                                  THEN OPTIMISTIC_TIMEOUT + 1 ELSE @ + d,
            !.last = "tick"])

\* AirTouch3ZoneSwitch.async_turn_on, up to the zone_toggle it sends when the
\* coordinator's data shows the zone off
async_turn_on ==
    /\ entities.setup /\ entities.pressed = ""
    /\ entities.turn_ons + entities.turn_offs < MaxCalls
    /\ Entities([entities EXCEPT
            !.turn_ons = @ + 1,
            !.toggles = IF ~entities.data.is_on THEN @ + 1 ELSE @,
            !.zone.is_on = IF ~entities.data.is_on THEN ~@ ELSE @,
            !.last = "turn_on"])

\* AirTouch3ZoneSwitch.async_turn_off, likewise
async_turn_off ==
    /\ entities.setup /\ entities.pressed = ""
    /\ entities.turn_ons + entities.turn_offs < MaxCalls
    /\ Entities([entities EXCEPT
            !.turn_offs = @ + 1,
            !.toggles = IF entities.data.is_on THEN @ + 1 ELSE @,
            !.zone.is_on = IF entities.data.is_on THEN ~@ ELSE @,
            !.last = "turn_off"])

NextEntities ==
    \/ async_update_data
    \/ async_press \/ async_press_update
    \/ \E d \in {1, OPTIMISTIC_TIMEOUT} : tick(d)
    \/ async_turn_on \/ async_turn_off

SpecEntities == Init /\ [][NextEntities]_vars

\* ------------------------------------------------------------------- claims
\* C1: every task that is at a socket write (drain) or a socket read holds
\* the send lock.
C1_SocketOnlyUnderLock == \A t \in Tasks : AtSocket(t) => lock_holder = t

\* C2: no public operation ever ends by raising.
C2_NeverRaises == \A t \in Tasks : result[t] # "raised"

\* C3: when connect returns False, reader and writer are None, connected is
\* False, and that connect called open_connection exactly once.
C3_FailedConnectLeavesDisconnected ==
    \A t \in Tasks :
        ConnectReturned(t) /\ ~rb[t] =>
            /\ reader = 0 /\ writer = 0 /\ ~connected
            /\ hist[t].nopen = 1

\* a connect has returned False because the init response did not decode
C3_Witness ==
    \E t \in Tasks :
        /\ ConnectReturned(t) /\ ~rb[t]
        /\ hist[t].cause = "decode_failed" /\ hist[t].writes # << >>
        /\ reader = 0 /\ writer = 0

\* what C4 and its amendment share: when connect returns True, the last frame
\* the task wrote is the init handshake on the transport this connect opened,
\* a state was decoded from a read after it, and the cache is that state
HandshakeDone(t) ==
    /\ hist[t].writes # << >>
    /\ LET w == hist[t].writes[Len(hist[t].writes)]
       IN  w.cmd = "init" /\ w.hs /\ w.conn = hist[t].opened
    /\ hist[t].read
    /\ hist[t].decoded # None /\ latest_state = hist[t].decoded

C5_OneConnectPerSend ==
    \A t \in Tasks :
        /\ SendReturned(t) /\ hist[t].disc0 =>
               /\ hist[t].connects = 1 /\ hist[t].nopen = 1
               /\ hist[t].connect = "failed" => rv[t] = None /\ OwnWrites(t) = {}
        /\ pc[t] \in {"connect", "connect_open"} => op[t] # "idle"

\* a send on a Disconnected session has returned None after its one connect
\* failed
C5_Witness ==
    \E t \in Tasks :
        /\ SendReturned(t) /\ hist[t].disc0 /\ hist[t].connect = "failed"
        /\ hist[t].connects = 1 /\ rv[t] = None

\* C6: when a send returns after its write failed, or its read raised or
\* returned end-of-stream, it returns None and reader and writer are None.
C6_IOFailureDisconnects ==
    \A t \in Tasks :
        AnySendReturned(t)
        /\ hist[t].cause \in {"write_failed", "eof", "error", "reader_reset"} =>
            rv[t] = None /\ reader = 0 /\ writer = 0 /\ ~connected

\* a send of an operation has returned after the peer closed the stream
C6_Witness ==
    \E t \in Tasks : SendReturned(t) /\ hist[t].cause = "eof" /\ rv[t] = None

TimeoutRetries == \A t \in Tasks : hist[t].cause = "timeout" => pc[t] = "wait_for_state_read"

\* C8 as stated: a read timeout never ends _wait_for_state, which returns
\* only after a decode, a decode failure, end-of-stream or a read error.
C8_ReturnsOnlyOnFourCauses ==
    /\ TimeoutRetries
    /\ \A t \in Tasks :
           WaitReturned(t) =>
               hist[t].cause \in {"decoded", "decode_failed", "eof", "error", "reader_reset"}

\* C8, amended: a read timeout never ends _wait_for_state, which returns
\* only after a decode, a decode failure, end-of-stream or a read error, or
\* at once, without reading, when self.reader is None on entry.
C8_ReturnsOnlyOnFiveCauses ==
    /\ TimeoutRetries
    /\ \A t \in Tasks :
           WaitReturned(t) =>
               hist[t].cause \in {"decoded", "decode_failed", "eof", "error", "reader_reset",
                                  "no_reader"}

\* a read has timed out and the task waits in the next read, the session
\* untouched
C8_Witness ==
    \E t \in Tasks :
        hist[t].cause = "timeout" /\ pc[t] = "wait_for_state_read" /\ connected /\ reader # 0

\* C9: a snapshot refresh_state returns was decoded from a read made after an
\* init command that this call itself wrote (not connect's handshake);
\* get_state called on a connected session with a cached snapshot returns
\* that cache without connecting, writing or reading.
C9_RefreshAlwaysAsks ==
    \A t \in Tasks :
        cur = t /\ pc[t] = "done" =>
            /\ op[t] = "refresh_state" /\ rv[t] # None =>
                   /\ hist[t].writes # << >>
                   /\ LET w == hist[t].writes[Len(hist[t].writes)]
                      IN  w.cmd = "init" /\ ~w.hs
                   /\ hist[t].read /\ rv[t] = hist[t].decoded
            /\ op[t] = "get_state" /\ ~hist[t].disc0 /\ hist[t].latest0 # None =>
                   /\ hist[t].writes = << >> /\ ~hist[t].read /\ hist[t].connects = 0
                   /\ rv[t] = hist[t].latest0

\* a refresh_state on a session that already had a cached snapshot returns a
\* snapshot
C9_Witness ==
    \E t \in Tasks :
        /\ cur = t /\ pc[t] = "done" /\ op[t] = "refresh_state" /\ rv[t] # None
        /\ ~hist[t].disc0 /\ hist[t].latest0 # None

\* C10 as stated, for a send no other operation runs beside: a send that
\* returns a snapshot leaves it in the cache, and a send that returns None
\* leaves the cache as it was when the send was called.
C10_NoneLeavesCacheAsBefore ==
    \A t \in Tasks :
        /\ AnySendReturned(t) /\ rv[t] # None => latest_state = rv[t]
        /\ SendReturned(t) /\ rv[t] = None /\ calls = 1 => latest_state = hist[t].latest0

\* C10, amended: the cache changes only in the step in which a send stores the
\* snapshot it has just decoded, and a send that returns a snapshot leaves it
\* in the cache.  (A send that returns None stores nothing itself, but the
\* handshake of its own reconnect is such a send.)
C10_CacheChangesOnlyOnDecode ==
    /\ [](\A t \in Tasks : AnySendReturned(t) /\ rv[t] # None => latest_state = rv[t])
    /\ [][latest_state' # latest_state =>
              \E t \in Tasks :
                  /\ cur = t /\ pc[t] = "send_command_state"
                  /\ rv[t] # None /\ rv[t] = hist[t].decoded
                  /\ latest_state' = rv[t]]_vars

\* a send of an operation has returned a snapshot that replaced another one
\* in the cache
C10_Witness ==
    \E t \in Tasks :
        /\ SendReturned(t) /\ rv[t] # None /\ latest_state = rv[t]
        /\ hist[t].latest0 # None /\ hist[t].latest0 # rv[t]

\* ------------------------------------------------------------------- C11
\* the units of the messages, in order
RECURSIVE Flat(_)
Flat(messages) == IF messages = << >> THEN << >>
                  ELSE Head(messages) \o Flat(Tail(messages))

\* the whole stream has been fed
StreamFed == fr_in # << >> /\ fr_stream = << >>

\* C11: once a stream of one internet-mode frame followed by one state frame
\* has been fed, however it was split into chunks, the messages returned are
\* exactly one: the trailing state frame, with nothing of the internet-mode
\* frame in any message.
C11_ChunkBoundaryIndependent ==
    StreamFed =>
        /\ Len(fr_out) = 1
        /\ \A k \in 1 .. STATE_MSG_SIZE : fr_out[1][k].f = 1 /\ fr_out[1][k].k = k
        /\ buffer = << >>

\* ------------------------------------------------------------------- C12
\* C12: in a call of add_data the internet-mode test comes first: a buffer of
\* at least the internet-mode frame size whose bytes 100..107 are zero loses
\* exactly that many units from its front and none of them is emitted;
\* otherwise a buffer of at least a state frame gives its first 492 bytes as
\* the first message; the messages are in stream order, each one state frame
\* long, and the remainder, shorter than a state frame, stays buffered.
C12_InternetTestFirst ==
    fr_in # << >> =>
        /\ IF Len(fr_in) >= INTERNET_MSG_SIZE /\ fr_in[1].zero_span
           THEN LET rest == SubSeq(fr_in, INTERNET_MSG_SIZE + 1, Len(fr_in))
                    r == add_data(<< >>, rest)
                IN  /\ fr_msgs = r.messages /\ buffer = r.buffer
                    /\ \A m \in 1 .. Len(fr_msgs) : \A k \in 1 .. Len(fr_msgs[m]) :
                           \A j \in 1 .. INTERNET_MSG_SIZE : fr_msgs[m][k] # fr_in[j]
           ELSE IF Len(fr_in) >= STATE_MSG_SIZE
           THEN /\ fr_msgs # << >>
                /\ fr_msgs[1] = SubSeq(fr_in, 1, STATE_MSG_SIZE)
           ELSE fr_msgs = << >> /\ buffer = fr_in
        /\ \A m \in 1 .. Len(fr_msgs) : Len(fr_msgs[m]) = STATE_MSG_SIZE
        /\ Len(buffer) < STATE_MSG_SIZE
        /\ \E dropped \in 0 .. Len(fr_in) :
               /\ Len(fr_in) = dropped * INTERNET_MSG_SIZE + Len(Flat(fr_msgs)) + Len(buffer)
               /\ LET out == Flat(fr_msgs) \o buffer
                  IN  \A i \in 1 .. Len(out) : \A j \in 1 .. Len(out) :
                          i < j => \E a \in 1 .. Len(fr_in) : \E b \in 1 .. Len(fr_in) :
                                       a < b /\ fr_in[a] = out[i] /\ fr_in[b] = out[j]

\* one call dropped an internet-mode frame and then emitted the state frame
C12_Witness ==
    /\ Len(fr_in) >= INTERNET_MSG_SIZE + STATE_MSG_SIZE /\ fr_in[1].zero_span
    /\ Len(fr_msgs) = 1 /\ buffer = << >>

\* ------------------------------------------------------------------- C13
\* a setter of task t has just returned rb[t] to its caller
SetterReturned(t) == cur = t /\ pc[t] = "done" /\ op[t] \in Setters

\* the nudge commands the setter of task t has written
Nudges(t) ==
    {i \in 1 .. Len(hist[t].writes) : hist[t].writes[i].cmd \in UpCommands \cup DownCommands}

\* the target of the setter of task t is within the range of its value
TargetInRange(t) ==
    IF op[t] = "ac_set_temperature" \/ (op[t] = "zone_set_value" /\ locals[t].is_temperature)
    THEN locals[t].target \in MIN_TEMP .. MAX_TEMP
    ELSE locals[t].target \in 0 .. 100

\* the device has the value the setter of task t addresses: AC 0, or zone 0
\* (with a setpoint, for a temperature)
Addressed(t) ==
    \/ op[t] = "ac_set_temperature"
    \/ /\ dev_zones >= 1
       /\ (op[t] = "zone_set_value" /\ locals[t].is_temperature) => locals[t].start > 0

\* max - min, in steps of the value
Span(t) ==
    IF op[t] = "ac_set_temperature" \/ (op[t] = "zone_set_value" /\ locals[t].is_temperature)
    THEN MAX_TEMP - MIN_TEMP
    ELSE DAMPER_MAX

\* C13: against a device that moves its value one step per nudge, a setter
\* called with a target within the range of the value returns True, after at
\* most max - min nudges.
C13_StepDeviceConverges ==
    \A t \in Tasks :
        (SetterReturned(t) /\ device_kind = "steps" /\ Addressed(t) /\ TargetInRange(t))
            => rb[t] /\ Cardinality(Nudges(t)) <= Span(t)

\* ------------------------------------------------------------------- C14
\* C14: against a device whose value never changes and differs from the
\* target, a setter writes exactly its iteration cap of nudge commands and
\* returns False, without raising.
C14_StuckDeviceExhaustsCap ==
    \A t \in Tasks :
        (SetterReturned(t) /\ device_kind = "stuck" /\ Addressed(t) /\ TargetInRange(t)
                           /\ locals[t].start # Target(op[t], locals[t].target))
            => ~rb[t] /\ Cardinality(Nudges(t)) = Cap(op[t]) /\ result[t] = "returned"

\* ------------------------------------------------------------------- C19
\* the setter of task t sets a temperature
IsTemperature(t) ==
    op[t] = "ac_set_temperature" \/ (op[t] = "zone_set_value" /\ locals[t].is_temperature)

\* the steps between the device's value when the setter of task t was called
\* and the target: degrees, or 5 % of a damper
Distance(t) ==
    LET target == Target(op[t], locals[t].target)
        d == IF locals[t].start < target THEN target - locals[t].start
             ELSE locals[t].start - target
    IN  IF IsTemperature(t) THEN d ELSE d \div 5

\* C19: on a device that moves one step per nudge, a setter that starts d
\* steps from an in-range target, d below the iteration cap, returns True
\* having written exactly d nudge commands, each towards the target (up iff
\* the value was below the target).
C19_ExactlyDistanceNudges ==
    \A t \in Tasks :
        (/\ SetterReturned(t) /\ device_kind = "steps" /\ Addressed(t) /\ TargetInRange(t)
         /\ IsTemperature(t) \/ locals[t].target % 5 = 0
         /\ Distance(t) < Cap(op[t]))
            => /\ rb[t]
               /\ Cardinality(Nudges(t)) = Distance(t)
               /\ \A i \in Nudges(t) :
                      hist[t].writes[i].cmd \in UpCommands
                          <=> locals[t].start < Target(op[t], locals[t].target)

\* ------------------------------------------------------------------- C15
\* C15: a setter whose first snapshot already shows the target returns True
\* and has written no nudge command.
C15_AtTargetNoNudge ==
    \A t \in Tasks :
        (SetterReturned(t) /\ locals[t].first = Target(op[t], locals[t].target))
            => rb[t] /\ Nudges(t) = {}

\* a setter has returned True from its first comparison, beside another
\* caller
C15_Witness ==
    \E t \in Tasks :
        /\ SetterReturned(t) /\ rb[t]
        /\ locals[t].first = locals[t].target /\ locals[t].i = 1
        /\ \E u \in Tasks \ {t} : op[u] # "idle"

\* ------------------------------------------------------------------- C16
\* get_state or the nudge's _send_command has just returned None to the
\* setter of task t
StepFailed(t) ==
    cur = t /\ op[t] \in Setters /\ pc[t] \in {"setter_state", "setter_nudged"} /\ rv[t] = None

OutOfRange(t) ==
    op[t] = "ac_set_temperature" /\ locals[t].target \notin MIN_TEMP .. MAX_TEMP

\* C17: ac_set_temperature with a target below MIN_TEMP or above MAX_TEMP
\* returns False in its first step, having attempted no connect, written and
\* read nothing, and leaves reader, writer, buffer, cache, lock and transports
\* as they were.
C17_OutOfRangeRejectedBeforeIO ==
    /\ [][\A t \in Tasks :
            (Running(t, "ac_set_temperature") /\ OutOfRange(t))
                => /\ pc'[t] = "done" /\ ~rb'[t]
                   /\ UNCHANGED <<client, lock, device>>]_vars
    /\ [](\A t \in Tasks :
            (OutOfRange(t) /\ pc[t] = "done")
                => ~rb[t] /\ hist[t] = NoHist)

\* ac_set_temperature has rejected a target above MAX_TEMP while the session
\* is connected and holds a snapshot
C17_Witness ==
    \E t \in Tasks :
        /\ SetterReturned(t) /\ OutOfRange(t) /\ ~rb[t]
        /\ connected /\ latest_state # None

\* ------------------------------------------------------------------- C18
\* C18: zone_set_value for a temperature outside MIN_TEMP .. MAX_TEMP returns
\* False having attempted no connect and written and read nothing.
C18_ZoneValueRejectedBeforeIO ==
    \A t \in Tasks :
        (/\ op[t] = "zone_set_value" /\ locals[t].is_temperature
         /\ locals[t].target \notin MIN_TEMP .. MAX_TEMP)
            => /\ hist[t].connects = 0 /\ hist[t].writes = << >> /\ ~hist[t].read
               /\ pc[t] = "done" => ~rb[t]

\* ------------------------------------------------------------------- C20
\* the setter of task t, having written a nudge, compares a snapshot that was
\* decoded after that write, and is within its iteration cap
FreshSnapshot(t) ==
    /\ (Running(t, "setter_compare") /\ Nudges(t) # {})
           => locals[t].state \in decoded_after[t]
    /\ Cardinality(Nudges(t)) <= Cap(op[t]) /\ locals[t].i <= Cap(op[t])

\* C20: beside polls and other callers' commands, a setter decides each
\* further nudge from a snapshot decoded after its previous nudge was written,
\* stays within its iteration cap, and ends by returning: the next nudge it
\* is about to write does not fail the assertion of _send_command.
C20_LoopToleratesInterleaving ==
    \A t \in Tasks :
        op[t] \in Setters =>
            /\ FreshSnapshot(t)
            /\ (Running(t, "send_command_locked") /\ Nudges(t) # {})
                   => writer # 0 /\ reader # 0

\* ------------------------------------------------------------------- C21
\* sync_time has just returned rb[t] to task t
SyncReturned(t) == cur = t /\ pc[t] = "done" /\ op[t] = "sync_time"

\* sync_time returns True exactly when its frame was written and drained,
\* after at most one connect() and one write; a failed write has disconnected
\* the session
SyncOutcome(t) ==
    LET TimeWritten == OwnWrites(t) # {} /\ hist[t].cause # "write_failed"
    IN  /\ rb[t] <=> TimeWritten
        /\ hist[t].connects <= 1
        /\ Cardinality(OwnWrites(t)) <= 1
        /\ OwnWrites(t) # {} /\ ~TimeWritten =>
               ~rb[t] /\ ~connected /\ conn[Written(t)] # "open"

\* C21 as stated: no step of a sync_time reads the socket or changes the
\* cached snapshot or the accumulator buffer; it returns True exactly when the
\* time-sync frame was written, after at most one connect attempt; a write
\* failure disconnects the session and returns False.
C21_FireAndForget ==
    /\ [][\A t \in Tasks :
            op[t] = "sync_time" /\ StepOf(t) =>
                /\ pc'[t] # "wait_for_state_read"
                /\ latest_state' = latest_state /\ buffer' = buffer]_vars
    /\ [](\A t \in Tasks : SyncReturned(t) => SyncOutcome(t))

\* C21, amended: outside the connect() it calls on a disconnected session, no
\* step of a sync_time reads the socket or changes the cached snapshot or the
\* accumulator buffer; it returns True exactly when the time-sync frame was
\* written, after at most one connect attempt; a write failure disconnects the
\* session and returns False.
C21_FireAndForgetAfterConnect ==
    /\ [][\A t \in Tasks :
            /\ op[t] = "sync_time" /\ StepOf(t)
            /\ \A i \in 1 .. Len(stack[t]) : stack[t][i] # "sync_time_connected"
            => /\ pc'[t] # "wait_for_state_read"
               /\ latest_state' = latest_state /\ buffer' = buffer]_vars
    /\ [](\A t \in Tasks : SyncReturned(t) => SyncOutcome(t))

\* a sync_time has returned True after connecting first: the handshake of
\* that connect read the socket, the frame itself was sent without a read
C21_Witness ==
    \E t \in Tasks :
        /\ SyncReturned(t) /\ rb[t]
        /\ hist[t].connects = 1 /\ hist[t].read
        /\ Cardinality(OwnWrites(t)) = 1

\* ------------------------------------------------------------------- C22
\* C22: every frame built by _create_command and _create_time_sync_command
\* has 13 bytes, each within 0..255; its last byte is the sum of the 12 bytes
\* before it modulo 256, and the three parameter bytes of _create_command are
\* the parameters modulo 256.
C22_FrameLengthAndChecksum ==
    applied.fn \in {"create_command", "create_time_sync_command"} =>
        /\ Len(returned) = 13
        /\ \A i \in 1 .. 13 : returned[i] \in 0 .. 255
        /\ returned[13] = (returned[1] + returned[2] + returned[3] + returned[4]
                           + returned[5] + returned[6] + returned[7] + returned[8]
                           + returned[9] + returned[10] + returned[11] + returned[12]) % 256
        /\ applied.fn = "create_command" =>
               \A k \in 4 .. 6 : returned[k] = applied.args[k] % 256

\* a generic command was built from a parameter that is no byte, and the sum
\* of its bytes needed reducing
C22_Witness ==
    /\ applied.fn = "create_command"
    /\ applied.args[4] = 300 /\ returned[4] = 44
    /\ returned[1] + returned[2] + returned[3] > 255

\* ------------------------------------------------------------------- C23
\* C23: the time-sync frame carries year mod 100, month - 1 within 0..11,
\* day - 1 within 0..30, hour within 0..23 and minute - 1 within 0..58, each
\* clamped by itself; the remaining payload bytes are zero.
C23_TimeSyncFields ==
    applied.fn = "create_time_sync_command" =>
        LET when == applied.args[4]
            Clamp(x, lo, hi) == IF x < lo THEN lo ELSE IF x > hi THEN hi ELSE x
        IN  /\ returned[2] = applied.args[3]
            /\ returned[4] = when.year % 100 /\ returned[4] \in 0 .. 99
            /\ returned[5] = Clamp(when.month - 1, 0, 11) /\ returned[5] \in 0 .. 11
            /\ returned[6] = Clamp(when.day - 1, 0, 30) /\ returned[6] \in 0 .. 30
            /\ returned[7] = Clamp(when.hour, 0, 23) /\ returned[7] \in 0 .. 23
            /\ returned[8] = Clamp(when.minute - 1, 0, 58) /\ returned[8] \in 0 .. 58
            /\ \A i \in 9 .. 12 : returned[i] = 0

\* the frame of 31 December 2026, 23:00: minute 0 is clamped to 0, not -1
C23_Witness ==
    /\ applied.fn = "create_time_sync_command"
    /\ applied.args[4] = [year |-> 2026, month |-> 12, day |-> 31, hour |-> 23, minute |-> 0]
    /\ SubSeq(returned, 4, 8) = <<26, 11, 30, 23, 0>>

\* ------------------------------------------------------------------- C24
\* C24: for the two remapped brands and for every other brand, decoding the
\* encoding of a mode gives that mode, for each of the five modes.
C24_ModeRoundTrip ==
    applied.fn = "encode_mode" =>
        decode_mode(returned, applied.args[2]) = applied.args[1]

\* Auto was encoded as 5 for brand 15, Cool as 1 for brand 11
C24_Witness ==
    /\ applied.fn = "encode_mode"
    /\ \/ applied.args = <<AcMode.AUTO, BRAND_REMAP_15>> /\ returned = 5
       \/ applied.args = <<AcMode.COOL, BRAND_REMAP_11>> /\ returned = 1

\* ------------------------------------------------------------------- C25
\* C25: for every brand and supported-speed bitmap, decoding the encoding of
\* a mode or fan speed gives that mode or fan speed, and encoding the decoding
\* of a raw mode or fan value gives that raw value.
C25_EncodeDecodeInverse ==
    /\ applied.fn = "encode_fan_speed" =>
           decode_fan_speed(returned, applied.args[2], applied.args[3]) = applied.args[1]
    /\ applied.fn = "encode_mode" =>
           decode_mode(returned, applied.args[2]) = applied.args[1]
    /\ applied.fn = "decode_fan_speed" =>
           encode_fan_speed(returned, applied.args[2], applied.args[3]) = applied.args[1]
    /\ applied.fn = "decode_mode" =>
           encode_mode(returned, applied.args[2]) = applied.args[1]

\* ------------------------------------------------------------------- C26
\* C26: _parse_state returns a SystemState for every 492-byte frame: no
\* _wait_for_state ever ends because the decoding of a frame raised.
C26_ParseNeverRaises == \A t \in Tasks : hist[t].cause # "decode_failed"

C31_CapthNudgeReachesTarget ==
    \A t \in Tasks :
        (/\ SetterReturned(t) /\ Cardinality(Nudges(t)) = Cap(op[t])
         /\ DeviceValue(op[t], locals[t].is_temperature) = Target(op[t], locals[t].target))
            => rb[t]

\* ------------------------------------------------------------------- C32
\* C32: a snapshot that _send_command returns was decoded from bytes of state
\* frames the device sent after the command was written, never from bytes
\* that were pending before the write.
C32_StateFollowsCommand ==
    \A t \in Tasks :
        (AnySendReturned(t) /\ rv[t] # None) =>
            \A k \in 1 .. Len(rv[t].raw_data) :
                rv[t].raw_data[k].f > hist[t].writes[Len(hist[t].writes)].sent

\* ------------------------------------------------------------------- C33
\* C33: when a connect() opens a transport on a session that is disconnected
\* (reader and writer are None, no transport is open), the accumulator holds
\* no bytes: framing on the new connection starts at its first byte, with
\* nothing left of what was received on the connection before.
C33_FramingStartsAtNewConnection ==
    [][(nconn' > nconn /\ writer = 0 /\ \A c \in Conns : conn[c] # "open")
           => buffer' = << >>]_vars

\* ------------------------------------------------------------------- C34
\* C34: at most one transport is open at any time, and reader/writer are
\* overwritten with a new transport only when the transport they held has
\* been closed.
C34_SingleConnection ==
    /\ Cardinality({c \in Conns : conn[c] = "open"}) <= 1
    /\ writer # 0 => \A c \in Conns \ {writer} : conn[c] # "open"

\* ------------------------------------------------------------------- C35
\* C35: when a read of _wait_for_state ends in a decoded snapshot, the frames
\* that this add_data call emitted (the accumulator and the bytes read, less
\* the remainder kept) are exactly the frame that was decoded: no emitted
\* frame is dropped, and the snapshot is that of the frame received last.
C35_NoFrameLost ==
    [][\A t \in Tasks :
          (/\ pc[t] = "wait_for_state_read" /\ hist'[t].cause = "decoded"
           /\ reader # 0 /\ Len(inq'[reader]) < Len(inq[reader]))
              => LET n == Len(inq[reader]) - Len(inq'[reader])
                     all == buffer \o SubSeq(inq[reader], 1, n)
                 IN  rv'[t].raw_data = SubSeq(all, 1, Len(all) - Len(buffer'))]_vars

C38_OffGridTargetExhaustsCap ==
    \A t \in Tasks :
        (/\ SetterReturned(t) /\ device_kind = "steps" /\ dev_zones >= 1
         /\ op[t] \in {"zone_set_damper", "zone_set_value"} /\ ~locals[t].is_temperature
         /\ locals[t].target \in 0 .. 100 /\ locals[t].target % 5 # 0)
            => /\ ~rb[t]
               /\ Cardinality(Nudges(t)) = ZONE_ITERATIONS
               /\ zone_damper \in {locals[t].target \div 5, locals[t].target \div 5 + 1}

\* ------------------------------------------------------------------- C39
\* C39: an update of the setpoint sensor that shows a setpoint above the
\* optimistic value stored by the Setpoint Down button, before the optimistic
\* timeout has expired, leaves the optimistic entry in place.
C39_DownValueHeldUntilReached ==
    [][(/\ entities'.last = "update" /\ entities.optimistic # << >>
        /\ entities.optimistic[1].button = "down"
        /\ entities.optimistic[1].age <= OPTIMISTIC_TIMEOUT
        /\ entities'.data.setpoint > entities.optimistic[1].value)
           => entities'.optimistic = entities.optimistic]_vars

\* ------------------------------------------------------------------- C40
\* C40: after async_turn_on calls only, the device's zone is on, an odd
\* number of zone-toggle commands having been sent exactly if the zone was
\* off at the start; after async_turn_off calls only, likewise off.
C40_IdempotentOnOff ==
    /\ (entities.turn_ons >= 1 /\ entities.turn_offs = 0)
           => /\ entities.zone.is_on
              /\ (entities.toggles % 2 = 1) <=> ~entities.start_on
    /\ (entities.turn_offs >= 1 /\ entities.turn_ons = 0)
           => /\ ~entities.zone.is_on
              /\ (entities.toggles % 2 = 1) <=> entities.start_on

====
